---- MODULE Spec2Model ----
(***************************************************************************)
(* Lot-based inventory of src/lib/inventory/product-service.ts:            *)
(* createProduct, addProductStock, startUsingProduct, recordProductUsage   *)
(* over the Product, ProductLot, Usage, RelatedProductUsage and Activity   *)
(* collections of the Prisma schema; the monthly statistics                *)
(* (updateMonthlyStats) and the service type catalog                       *)
(* (calculateAdjustedUsageAmount, copyServiceType).                        *)
(*                                                                         *)
(* In Spec, SpecRelated, SpecStats, SpecMonthly, SpecFaults and            *)
(* SpecCatalog each request runs to completion before the next one starts; *)
(* in SpecConcurrent two requests are interleaved at their awaits.         *)
(*                                                                         *)
(* Amounts (Float in the schema) are counted in whole units, in the        *)
(* catalog in hundredths.  A nullable column is a sequence of length 0     *)
(* (null) or 1 (the value).                                                *)
(***************************************************************************)
EXTENDS Integers, Sequences, FiniteSets, Bags, TLC

\* ------------------------------------------------------------------ bounds
MaxProducts == 2
MaxLots == 2
MaxUsages == 1
MaxQuantity == 2
MaxAmount == 2
MaxRelated == 2
MaxTime == 1
MaxStatUpdates == 3
MaxServiceTypes == 3
MaxAssociations == 3
MaxInvitations == 2
MaxStaff == 3

\* ------------------------------------------------------------------ inputs
Null == <<>>
Some(v) == <<v>>
IsNull(x) == x = <<>>
Val(x) == x[1]

\* rows of the Store, User and ServiceType collections (not written by the
\* operations modelled here); "s0", "u0", "t0" are ids of no row.  A product
\* or lot id is the id of no row until the row with that id is created.
Stores == {"s1", "s2"}
\* the store ids of the calls on one store's inventory: its own, a missing one
StoreIds == {"s1", "s0"}
Users == {"u1"}
UserIds == Users \cup {"u0"}
ServiceTypes == {"t1"}
ServiceTypeIds == ServiceTypes \cup {"t0"}
\* storeId of the ServiceType rows
StoreOfServiceType == [t \in ServiceTypes |-> "s1"]

ProductIds == 1..MaxProducts
LotIds == 1..MaxLots
Amounts == 1..MaxAmount
\* capacity of a created product; currentAmount of a lot added in use (a
\* bottle added partly used, or with no amount given)
Capacities == {Some(MaxAmount)}
StockAmounts == {Null, Some(MaxAmount - 1)}
\* (isInUse, currentAmount) of an addProductStock call: currentAmount is read
\* only when isInUse is true
StockStates == {<<FALSE, Null>>} \cup {<<TRUE, c>> : c \in StockAmounts}
RelatedEntry == [productId : ProductIds, amount : {MaxAmount}]
RelatedLists == UNION {[1..k -> RelatedEntry] : k \in 0..MaxRelated}

VARIABLES
  products,       \* model Product: id (1, 2, ...) -> row
  lots,           \* model ProductLot: id -> row
  usages,         \* model Usage: id -> row
  relatedUsages,  \* model RelatedProductUsage: id -> row
  activities,     \* model Activity: the bag of rows
  now,            \* what new Date() returns
  ret,            \* the last call: the operation, and the Error it threw or "none"
  monthlyServiceStat,  \* model MonthlyServiceStat: id -> row
  serviceType,         \* model ServiceType, as the catalog operations see it: id -> row
  serviceTypeProduct,  \* model ServiceTypeProduct: id -> row
  calls,          \* the calls in flight or returned: each one's arguments, the
                  \* await it is at, what it has read and what it returned
  issued,         \* the rows there were when the calls in flight were issued
  user,           \* model User, as staff registration sees it: id -> row
  invitation      \* model Invitation: id -> row

vars ==
  <<products, lots, usages, relatedUsages, activities, now, ret,
    monthlyServiceStat, serviceType, serviceTypeProduct, calls, issued,
    user, invitation>>

\* the collections and bookkeeping the inventory requests leave alone
catalogVars ==
  <<monthlyServiceStat, serviceType, serviceTypeProduct, calls, issued, user, invitation>>

\* the collections the operations read and write, as one value
DB ==
  [products |-> products, lots |-> lots, usages |-> usages,
   relatedUsages |-> relatedUsages, activities |-> activities]

\* ------------------------------------------------------------------ helpers
\* InUseLotsOf with the where clause left out
AnyLotsOf(ls, p) == {l \in DOMAIN ls : ls[l].productId = p}

\* include: { currentProductLots: { where: { isInUse: true } } }
InUseLotsOf(ls, p) == {l \in DOMAIN ls : ls[l].productId = p /\ ls[l].isInUse}

\* NotAfter with the order reversed (orderBy: { startedAt: 'desc' })
NotBefore(x, y) == IsNull(y) \/ (~IsNull(x) /\ Val(y) <= Val(x))

\* orderBy: { startedAt: 'asc' } (null sorts first)
NotAfter(x, y) == IsNull(x) \/ (~IsNull(y) /\ Val(x) <= Val(y))

\* currentProductLots[0]: the lots the ordered query may return first; lots
\* with equal startedAt are returned in an order the query does not fix
FirstLots(ls, cands) ==
  {l \in cands : \A m \in cands : NotAfter(ls[l].startedAt, ls[m].startedAt)}

\* Decrement that writes nothing
DecrementNothing(x, amount) == x

\* { decrement: amount } on a nullable Float: null stays null
Decrement(x, amount) == IF IsNull(x) THEN Null ELSE Some(Val(x) - amount)

Activity(userId, action, productId) ==
  [userId |-> userId, action |-> action, productId |-> productId]

AddActivity(acts, a) == acts (+) SetToBag({a})

Append1(f, row) == [i \in 1..(Len(f) + 1) |-> IF i <= Len(f) THEN f[i] ELSE row]

\* a thrown Error
Throw(d, err) == [err |-> err, db |-> d]

\* a returned row
Return(d) == [err |-> "none", db |-> d]

Init ==
  /\ products = <<>>
  /\ lots = <<>>
  /\ usages = <<>>
  /\ relatedUsages = <<>>
  /\ activities = EmptyBag
  /\ now = 0
  /\ ret = [op |-> "init", err |-> "none"]
  /\ monthlyServiceStat = <<>>
  /\ user = <<>>
  /\ invitation = <<>>
  /\ serviceType = <<>>
  /\ serviceTypeProduct = <<>>
  /\ calls = <<>>
  /\ issued = <<>>

\* the request `op` ends with result r: its writes and what the caller sees
Respond(op, r) ==
  /\ products' = r.db.products
  /\ lots' = r.db.lots
  /\ usages' = r.db.usages
  /\ relatedUsages' = r.db.relatedUsages
  /\ activities' = r.db.activities
  /\ ret' = [op |-> op, err |-> r.err]
  /\ UNCHANGED now
  /\ UNCHANGED catalogVars

\* time passes between two requests (two requests may also share a timestamp)
Tick ==
  /\ now < MaxTime
  /\ now' = now + 1
  /\ UNCHANGED <<products, lots, usages, relatedUsages, activities, ret>>
  /\ UNCHANGED catalogVars

\* ------------------------------------------------------------ createProduct
NewProduct(storeId, capacity, totalQuantity) ==
  [storeId |-> storeId, capacity |-> capacity,
   totalQuantity |-> totalQuantity, inUseQuantity |-> 0,
   lotQuantity |-> totalQuantity, usageCount |-> 0, lastUsed |-> Null,
   minStockAlert |-> 5]

UnusedLot(productId) ==
  [productId |-> productId, isInUse |-> FALSE, currentAmount |-> Null,
   startedAt |-> Null]

\* CreateLots with the loop bound off by one (i <= totalQuantity)
RECURSIVE CreateLotsOneMore(_, _, _)
CreateLotsOneMore(ls, productId, n) ==
  IF n < 0 THEN ls
  ELSE CreateLotsOneMore(Append1(ls, UnusedLot(productId)), productId, n - 1)

\* for (let i = 0; i < totalQuantity; i++) productLot.create(...)
RECURSIVE CreateLots(_, _, _)
CreateLots(ls, productId, n) ==
  IF n <= 0 THEN ls
  ELSE CreateLots(Append1(ls, UnusedLot(productId)), productId, n - 1)

createProductResult(d, storeId, capacity, totalQuantity) ==
  LET id == Len(d.products) + 1 IN
  IF storeId \notin Stores THEN Throw(d, "StoreNotFound")
  ELSE Return([d EXCEPT
                 !.products = Append1(@, NewProduct(storeId, capacity, totalQuantity)),
                 !.lots = CreateLots(@, id, totalQuantity)])

createProduct(storeId, capacity, totalQuantity) ==
  Respond("createProduct", createProductResult(DB, storeId, capacity, totalQuantity))

\* ---------------------------------------------------------- addProductStock
\* StockLot that stores the currentAmount given whatever isInUse is
StockLotKeepsAmount(productId, isInUse, currentAmount, t) ==
  [productId |-> productId, isInUse |-> isInUse,
   currentAmount |-> currentAmount,
   startedAt |-> IF isInUse THEN Some(t) ELSE Null]

\* productLot.create inside the $transaction array: one lot per call
StockLot(productId, isInUse, currentAmount, t) ==
  [productId |-> productId, isInUse |-> isInUse,
   currentAmount |-> IF isInUse THEN currentAmount ELSE Null,
   startedAt |-> IF isInUse THEN Some(t) ELSE Null]

\* product.update inside the $transaction array
StockCounters(product, quantity, isInUse) ==
  [product EXCEPT
     !.totalQuantity = @ + quantity,
     !.lotQuantity = @ + (IF isInUse THEN 0 ELSE quantity),
     !.inUseQuantity = @ + (IF isInUse THEN quantity ELSE 0)]

addProductStockResult(d, productId, quantity, currentAmount, isInUse, addedBy, t) ==
  IF productId \notin DOMAIN d.products THEN Throw(d, "ProductNotFound")
  ELSE IF addedBy \notin Users THEN Throw(d, "UserNotFound")
  ELSE Return([d EXCEPT
                 !.lots = Append1(@, StockLot(productId, isInUse, currentAmount, t)),
                 !.products[productId] = StockCounters(@, quantity, isInUse),
                 !.activities = AddActivity(@, Activity(addedBy, "ADD_STOCK", productId))])

addProductStock(productId, quantity, currentAmount, isInUse, addedBy) ==
  Respond("addProductStock",
          addProductStockResult(DB, productId, quantity, currentAmount, isInUse,
                                addedBy, now))

\* -------------------------------------------------------- startUsingProduct
\* AlreadyInUse with the check left out
AlreadyInUseUnchecked(lot) == FALSE

\* if (lot.isInUse) throw ... is already in use
AlreadyInUse(lot) == lot.isInUse

\* productLot.update inside the $transaction array
StartedLot(lot, capacity, t) ==
  [lot EXCEPT !.isInUse = TRUE, !.currentAmount = capacity, !.startedAt = Some(t)]

\* StartCounters with the inUseQuantity increment left out
StartCountersNoInUse(product) ==
  [product EXCEPT !.lotQuantity = @ - 1]

\* product.update inside the $transaction array
StartCounters(product) ==
  [product EXCEPT !.lotQuantity = @ - 1, !.inUseQuantity = @ + 1]

startUsingProductResult(d, lotId, userId, t) ==
  IF lotId \notin DOMAIN d.lots THEN Throw(d, "LotNotFound")
  ELSE IF AlreadyInUse(d.lots[lotId]) THEN Throw(d, "AlreadyInUse")
  ELSE IF userId \notin Users THEN Throw(d, "UserNotFound")
  ELSE LET p == d.lots[lotId].productId IN
       Return([d EXCEPT
                 !.lots[lotId] = StartedLot(@, d.products[p].capacity, t),
                 !.products[p] = StartCounters(@),
                 !.activities = AddActivity(@, Activity(userId, "START_USING", p))])

startUsingProduct(lotId, userId) ==
  Respond("startUsingProduct", startUsingProductResult(DB, lotId, userId, now))

\* ------------------------------------------------------- recordProductUsage
\* NotEnough with <= for <
NotEnoughOrEqual(lot, usageAmount) ==
  ~IsNull(lot.currentAmount) /\ Val(lot.currentAmount) <= usageAmount

\* if (usedLot.currentAmount !== null && usedLot.currentAmount < usageAmount) throw
NotEnough(lot, usageAmount) ==
  ~IsNull(lot.currentAmount) /\ Val(lot.currentAmount) < usageAmount

UsageRow(productId, serviceTypeId, usageAmount, usedLotId, t) ==
  [productId |-> productId, serviceTypeId |-> serviceTypeId,
   usageAmount |-> usageAmount, usedLotId |-> usedLotId, date |-> t]

\* RelatedRow with the lot's id written as the product's
RelatedRowOfLot(usageId, related, usedLotId) ==
  [usageId |-> usageId, productId |-> usedLotId,
   amount |-> related.amount, usedLotId |-> usedLotId]

RelatedRow(usageId, related, usedLotId) ==
  [usageId |-> usageId, productId |-> related.productId,
   amount |-> related.amount, usedLotId |-> usedLotId]

\* for (const related of relatedProducts) { ... } inside the transaction: the
\* results of the loop from entry i on, each the transaction's view of the
\* collections when the loop ended or threw
RECURSIVE RelatedLoop(_, _, _, _)
RelatedLoop(d, usageId, relatedProducts, i) ==
  IF i > Len(relatedProducts) THEN {Return(d)}
  ELSE LET related == relatedProducts[i]
           found == related.productId \in DOMAIN d.products
           inUse == IF found THEN InUseLotsOf(d.lots, related.productId) ELSE {}
       IN
       IF ~found \/ inUse = {} THEN {Throw(d, "NoRelatedLots")}
       ELSE UNION {
              RelatedLoop(
                [d EXCEPT
                   !.relatedUsages = Append1(@, RelatedRow(usageId, related, relatedLot)),
                   !.lots[relatedLot].currentAmount = Decrement(@, related.amount)],
                usageId, relatedProducts, i + 1)
              : relatedLot \in FirstLots(d.lots, inUse)}

\* UsageCounters that leaves usageCount as it is
UsageCountersLastUsed(product, t) == [product EXCEPT !.lastUsed = Some(t)]

\* data: { usageCount: { increment: 1 }, lastUsed: new Date() }
UsageCounters(product, t) ==
  [product EXCEPT !.usageCount = @ + 1, !.lastUsed = Some(t)]

\* the body of prisma.$transaction(async (tx) => { ... })
UsageTransaction(d, productId, serviceTypeId, usageAmount, relatedProducts, recordedBy, usedLot, t) ==
  LET usageId == Len(d.usages) + 1
      d1 == [d EXCEPT
               !.usages = Append1(@, UsageRow(productId, serviceTypeId, usageAmount,
                                              usedLot, t)),
               !.lots[usedLot].currentAmount = Decrement(@, usageAmount)]
  IN
  {IF r.err # "none" THEN r
   ELSE Return([r.db EXCEPT
                  !.products[productId] = UsageCounters(@, t),
                  !.activities = AddActivity(@, Activity(recordedBy, "RECORD_USAGE",
                                                         productId))])
   : r \in RelatedLoop(d1, usageId, relatedProducts, 1)}

\* Transaction without rollback: the writes made before the throw stay
TransactionNoRollback(d, r) == r

\* prisma.$transaction: the writes of a callback that throws are rolled back
Transaction(d, r) == IF r.err # "none" THEN Throw(d, r.err) ELSE r

\* from the insufficient-quantity check on, once usedLot is selected
recordUsageFromLot(d, productId, serviceTypeId, usageAmount, relatedProducts, recordedBy, usedLot, t) ==
  IF NotEnough(d.lots[usedLot], usageAmount)
  THEN {Throw(d, "InsufficientQuantity")}
  ELSE {Transaction(d, r) :
          r \in UsageTransaction(d, productId, serviceTypeId, usageAmount,
                                 relatedProducts, recordedBy, usedLot, t)}

\* every result the call can have on collections d at time t
recordProductUsageResults(d, productId, serviceTypeId, usageAmount, relatedProducts, recordedBy, t) ==
  IF productId \notin DOMAIN d.products THEN {Throw(d, "ProductNotFound")}
  ELSE IF InUseLotsOf(d.lots, productId) = {} THEN {Throw(d, "OutOfStock")}
  ELSE IF serviceTypeId \notin ServiceTypes THEN {Throw(d, "ServiceTypeNotFound")}
  ELSE IF recordedBy \notin Users THEN {Throw(d, "UserNotFound")}
  ELSE UNION {recordUsageFromLot(d, productId, serviceTypeId, usageAmount,
                                 relatedProducts, recordedBy, usedLot, t)
              : usedLot \in FirstLots(d.lots, InUseLotsOf(d.lots, productId))}

recordProductUsage(productId, serviceTypeId, usageAmount, relatedProducts, recordedBy) ==
  \E r \in recordProductUsageResults(DB, productId, serviceTypeId, usageAmount,
                                     relatedProducts, recordedBy, now) :
    Respond("recordProductUsage", r)

\* ------------------------------------------------------------ specification
\* the collections stay within the bounds: no request is made that could
\* add a row beyond them
RoomFor(nProducts, nLots, nUsages) ==
  /\ Len(products) + nProducts <= MaxProducts
  /\ Len(lots) + nLots <= MaxLots
  /\ Len(usages) + nUsages <= MaxUsages

Next ==
  \/ Tick
  \/ \E s \in StoreIds, c \in Capacities, n \in 0..MaxQuantity :
        RoomFor(1, n, 0) /\ createProduct(s, c, n)
  \/ \E p \in ProductIds, q \in 1..MaxQuantity, s \in StockStates, u \in UserIds :
        RoomFor(0, 1, 0) /\ addProductStock(p, q, s[2], s[1], u)
  \/ \E l \in LotIds, u \in UserIds : startUsingProduct(l, u)
  \/ \E p \in ProductIds, st \in ServiceTypeIds, a \in Amounts, rel \in RelatedLists,
        u \in UserIds :
        RoomFor(0, 0, 1) /\ recordProductUsage(p, st, a, rel, u)

Spec == Init /\ [][Next]_vars

\* service events over one more product than Spec has, with ids of existing
\* store, user and service-type rows: a primary product and two related ones
RelatedNext ==
  \/ Tick
  \/ \E n \in 0..1 :
       /\ Len(products) <= MaxProducts
       /\ Len(lots) + n <= MaxLots
       /\ createProduct("s1", Some(MaxAmount), n)
  \/ \E l \in LotIds : startUsingProduct(l, "u1")
  \/ \E p \in 1..(MaxProducts + 1), a \in Amounts,
        rel \in UNION {[1..k -> [productId : 1..(MaxProducts + 1), amount : {MaxAmount}]]
                       : k \in 0..MaxRelated} :
        Len(usages) < MaxUsages /\ recordProductUsage(p, "t1", a, rel, "u1")

SpecRelated == Init /\ [][RelatedNext]_vars

\* ------------------------------------------------------- updateMonthlyStats
\* a Date counted in months from January of year 0: getFullYear() and
\* getMonth() (0-indexed)
getFullYear(date) == date \div 12
getMonth(date) == date % 12

RECURSIVE GCD(_, _)
GCD(a, b) == IF b = 0 THEN a ELSE GCD(b, a % b)

\* a / b on Floats, as the fraction in lowest terms (b > 0)
Quotient(a, b) == <<a \div GCD(a, b), b \div GCD(a, b)>>

StatDates == {0, 1, 12}
StatAmounts == 1..MaxAmount

StatRow(serviceTypeId, year, month, totalUsage, usageCount, averageUsage) ==
  [serviceTypeId |-> serviceTypeId, year |-> year, month |-> month,
   totalUsage |-> totalUsage, usageCount |-> usageCount,
   averageUsage |-> averageUsage]

\* monthlyServiceStat.findUnique({ where: { monthlyStatIdentifier: ... } }):
\* null, or the row read (with its id)
findStat(rows, serviceTypeId, year, month) ==
  LET ids == {i \in DOMAIN rows :
                /\ rows[i].serviceTypeId = serviceTypeId
                /\ rows[i].year = year
                /\ rows[i].month = month}
  IN
  IF ids = {} THEN Null
  ELSE LET id == CHOOSE i \in ids : TRUE IN Some([id |-> id, row |-> rows[id]])

\* StatUpdate that keeps the count it read
StatUpdateSameCount(existingStat, usageAmount) ==
  [totalUsage |-> existingStat.totalUsage + usageAmount,
   usageCount |-> existingStat.usageCount,
   averageUsage |-> Quotient(existingStat.totalUsage + usageAmount,
                             existingStat.usageCount + 1)]

\* data: { totalUsage: existingStat.totalUsage + usageAmount, ... }: the
\* values written are computed from the row that was read
StatUpdate(existingStat, usageAmount) ==
  [totalUsage |-> existingStat.totalUsage + usageAmount,
   usageCount |-> existingStat.usageCount + 1,
   averageUsage |-> Quotient(existingStat.totalUsage + usageAmount,
                             existingStat.usageCount + 1)]

\* if (existingStat) monthlyServiceStat.update(...) else create(...), on the
\* rows there are when the write is made; create fails on the unique index
\* [serviceTypeId, year, month] if a row of that key has appeared meanwhile
writeStat(rows, existingStat, serviceTypeId, usageAmount, year, month) ==
  IF ~IsNull(existingStat)
  THEN LET data == StatUpdate(Val(existingStat).row, usageAmount) IN
       Return([rows EXCEPT ![Val(existingStat).id] =
                 [@ EXCEPT !.totalUsage = data.totalUsage,
                           !.usageCount = data.usageCount,
                           !.averageUsage = data.averageUsage]])
  ELSE IF ~IsNull(findStat(rows, serviceTypeId, year, month))
       THEN Throw(rows, "UniqueConstraint")
       ELSE Return(Append1(rows, StatRow(serviceTypeId, year, month, usageAmount, 1,
                                         Quotient(usageAmount, 1))))

\* the call run with no other call between its read and its write
updateMonthlyStatsResult(rows, serviceTypeId, usageAmount, date) ==
  LET year == getFullYear(date)
      month == getMonth(date) + 1
  IN
  writeStat(rows, findStat(rows, serviceTypeId, year, month), serviceTypeId,
            usageAmount, year, month)

updateMonthlyStats(serviceTypeId, usageAmount, date) ==
  LET r == updateMonthlyStatsResult(monthlyServiceStat, serviceTypeId, usageAmount, date) IN
  /\ monthlyServiceStat' = r.db
  /\ ret' = [op |-> "updateMonthlyStats", err |-> r.err]
  /\ UNCHANGED <<products, lots, usages, relatedUsages, activities, now>>
  /\ UNCHANGED <<serviceType, serviceTypeProduct, calls, issued, user, invitation>>

\* the number of updates the rows hold
RECURSIVE StatUpdates(_)
StatUpdates(rows) ==
  IF rows = <<>> THEN 0
  ELSE rows[Len(rows)].usageCount + StatUpdates(SubSeq(rows, 1, Len(rows) - 1))

\* usage recording on one product with one lot, and the statistics calls its
\* callers make
StatsNext ==
  \/ Tick
  \/ Len(products) < 1 /\ Len(lots) < 1 /\ createProduct("s1", Some(MaxAmount), 1)
  \/ \E l \in LotIds : startUsingProduct(l, "u1")
  \/ \E p \in ProductIds, a \in Amounts :
       Len(usages) < MaxUsages /\ recordProductUsage(p, "t1", a, <<>>, "u1")
  \/ \E st \in ServiceTypes, a \in StatAmounts, date \in StatDates :
       StatUpdates(monthlyServiceStat) < MaxStatUpdates /\ updateMonthlyStats(st, a, date)

SpecStats == Init /\ [][StatsNext]_vars

\* the statistics calls alone
MonthlyNext ==
  \E st \in ServiceTypes, a \in StatAmounts, date \in StatDates :
    StatUpdates(monthlyServiceStat) < MaxStatUpdates /\ updateMonthlyStats(st, a, date)

SpecMonthly == Init /\ [][MonthlyNext]_vars

\* --------------------------------------------------------- concurrent calls
\* Two requests served at once.  A call is at one of its awaits: "find" (its
\* first read), then "write" (updateMonthlyStats) or "transaction", then
\* "activity" (startUsingProduct), then "done".  Reads of the Store, User and
\* ServiceType rows, which no call writes, are taken with the first read.  A
\* $transaction commits at one instant.
Call(op, args) == [op |-> op, args |-> args, pc |-> "find", read |-> Null, err |-> "none"]

StatCalls ==
  {Call("updateMonthlyStats", [serviceTypeId |-> "t1", usageAmount |-> a, date |-> date])
   : a \in StatAmounts, date \in {0, 1}}

StartCalls ==
  {Call("startUsingProduct", [lotId |-> l, userId |-> "u1"]) : l \in LotIds}

UsageCalls ==
  {Call("recordProductUsage",
        [productId |-> 1, serviceTypeId |-> "t1", usageAmount |-> a,
         relatedProducts |-> <<>>, recordedBy |-> "u1"])
   : a \in Amounts}

\* startUsingProduct up to the transaction: the lot read with its product
startFind(d, args) ==
  IF args.lotId \notin DOMAIN d.lots THEN [err |-> "LotNotFound", read |-> Null]
  ELSE IF AlreadyInUse(d.lots[args.lotId]) THEN [err |-> "AlreadyInUse", read |-> Null]
  ELSE IF args.userId \notin Users THEN [err |-> "UserNotFound", read |-> Null]
  ELSE LET p == d.lots[args.lotId].productId IN
       [err |-> "none",
        read |-> Some([productId |-> p, capacity |-> d.products[p].capacity])]

\* the $transaction array of startUsingProduct: the lot is set from what the
\* call read, the counters are incremented in the database
startCommit(d, args, lot, t) ==
  [d EXCEPT !.lots[args.lotId] = StartedLot(@, lot.capacity, t),
            !.products[lot.productId] = StartCounters(@)]

\* recordProductUsage up to the transaction: the product read with its
\* in-use lots, usedLot picked, and the checks made on what was read
usageFind(d, args) ==
  IF args.productId \notin DOMAIN d.products
  THEN {[err |-> "ProductNotFound", read |-> Null]}
  ELSE IF InUseLotsOf(d.lots, args.productId) = {}
  THEN {[err |-> "OutOfStock", read |-> Null]}
  ELSE IF args.serviceTypeId \notin ServiceTypes
  THEN {[err |-> "ServiceTypeNotFound", read |-> Null]}
  ELSE IF args.recordedBy \notin Users
  THEN {[err |-> "UserNotFound", read |-> Null]}
  ELSE {IF NotEnough(d.lots[usedLot], args.usageAmount)
        THEN [err |-> "InsufficientQuantity", read |-> Null]
        ELSE [err |-> "none", read |-> Some([id |-> usedLot, row |-> d.lots[usedLot]])]
        : usedLot \in FirstLots(d.lots, InUseLotsOf(d.lots, args.productId))}

\* usageCommit writing the amount computed from the lot as it was read
usageCommitStale(d, args, usedLot, t) ==
  {Transaction(d, IF r.err # "none" THEN r
                  ELSE Return([r.db EXCEPT !.lots[usedLot.id].currentAmount =
                                 Decrement(usedLot.row.currentAmount, args.usageAmount)]))
   : r \in UsageTransaction(d, args.productId, args.serviceTypeId, args.usageAmount,
                            args.relatedProducts, args.recordedBy, usedLot.id, t)}

\* the $transaction callback of recordProductUsage on the rows there are when
\* it runs: only usedLot.id comes from the earlier read
usageCommit(d, args, usedLot, t) ==
  {Transaction(d, r)
   : r \in UsageTransaction(d, args.productId, args.serviceTypeId, args.usageAmount,
                            args.relatedProducts, args.recordedBy, usedLot.id, t)}

\* what the first read of a call can return, and the error of the checks made
\* on it
Found(op, args) ==
  CASE op = "updateMonthlyStats" ->
         {[err |-> "none",
           read |-> <<findStat(monthlyServiceStat, args.serviceTypeId,
                               getFullYear(args.date), getMonth(args.date) + 1)>>]}
    [] op = "startUsingProduct" -> {startFind(DB, args)}
    [] op = "recordProductUsage" -> usageFind(DB, args)

AfterFind(op) ==
  CASE op = "updateMonthlyStats" -> "write"
    [] op = "startUsingProduct" -> "transaction"
    [] op = "recordProductUsage" -> "transaction"

Write(d) ==
  /\ products' = d.products
  /\ lots' = d.lots
  /\ usages' = d.usages
  /\ relatedUsages' = d.relatedUsages
  /\ activities' = d.activities

find(i) ==
  /\ calls[i].pc = "find"
  /\ \E r \in Found(calls[i].op, calls[i].args) :
       calls' = [calls EXCEPT
                   ![i].pc = IF r.err = "none" THEN AfterFind(calls[i].op) ELSE "done",
                   ![i].read = r.read,
                   ![i].err = r.err]
  /\ UNCHANGED <<products, lots, usages, relatedUsages, activities, now, ret>>
  /\ UNCHANGED <<monthlyServiceStat, serviceType, serviceTypeProduct, issued, user, invitation>>

write(i) ==
  /\ calls[i].pc = "write"
  /\ LET args == calls[i].args
         r == writeStat(monthlyServiceStat, Val(calls[i].read), args.serviceTypeId,
                        args.usageAmount, getFullYear(args.date), getMonth(args.date) + 1)
     IN
     /\ monthlyServiceStat' = r.db
     /\ calls' = [calls EXCEPT ![i].pc = "done", ![i].err = r.err]
  /\ UNCHANGED <<products, lots, usages, relatedUsages, activities, now, ret>>
  /\ UNCHANGED <<serviceType, serviceTypeProduct, issued, user, invitation>>

transaction(i) ==
  /\ calls[i].pc = "transaction"
  /\ \/ /\ calls[i].op = "startUsingProduct"
        /\ Write(startCommit(DB, calls[i].args, Val(calls[i].read), now))
        /\ calls' = [calls EXCEPT ![i].pc = "activity"]
     \/ /\ calls[i].op = "recordProductUsage"
        /\ \E r \in usageCommit(DB, calls[i].args, Val(calls[i].read), now) :
             /\ Write(r.db)
             /\ calls' = [calls EXCEPT ![i].pc = "done", ![i].err = r.err]
  /\ UNCHANGED <<now, ret, monthlyServiceStat, serviceType, serviceTypeProduct, issued, user, invitation>>

\* activity.create after the transaction of startUsingProduct
activity(i) ==
  /\ calls[i].pc = "activity"
  /\ activities' = AddActivity(activities,
                               Activity(calls[i].args.userId, "START_USING",
                                        Val(calls[i].read).productId))
  /\ calls' = [calls EXCEPT ![i].pc = "done"]
  /\ UNCHANGED <<products, lots, usages, relatedUsages, now, ret>>
  /\ UNCHANGED <<monthlyServiceStat, serviceType, serviceTypeProduct, issued, user, invitation>>

\* a product with one lot in use and one unused, and a statistics row that
\* one or two updates have made, when two calls are issued
ConcurrentInit ==
  \E amts \in UNION {[1..k -> StatAmounts] : k \in 1..2} :
    LET empty == [products |-> <<>>, lots |-> <<>>, usages |-> <<>>,
                  relatedUsages |-> <<>>, activities |-> EmptyBag]
        created == createProductResult(empty, "s1", Some(MaxAmount), 2).db
        started == startUsingProductResult(created, 1, "u1", 0).db
        rows == IF Len(amts) = 1
                THEN updateMonthlyStatsResult(<<>>, "t1", amts[1], 0).db
                ELSE updateMonthlyStatsResult(
                       updateMonthlyStatsResult(<<>>, "t1", amts[1], 0).db,
                       "t1", amts[2], 0).db
    IN
    /\ products = started.products
    /\ lots = started.lots
    /\ usages = started.usages
    /\ relatedUsages = started.relatedUsages
    /\ activities = started.activities
    /\ now = 0
    /\ ret = [op |-> "init", err |-> "none"]
    /\ monthlyServiceStat = rows
    /\ user = <<>>
    /\ invitation = <<>>
    /\ serviceType = <<>>
    /\ serviceTypeProduct = <<>>
    /\ calls \in [1..2 -> StatCalls \cup StartCalls \cup UsageCalls]
    /\ issued = [products |-> started.products, lots |-> started.lots,
                 monthlyServiceStat |-> rows]

ConcurrentNext ==
  \/ \E i \in DOMAIN calls : find(i)
  \/ \E i \in DOMAIN calls : write(i)
  \/ \E i \in DOMAIN calls : transaction(i)
  \/ \E i \in DOMAIN calls : activity(i)

SpecConcurrent == ConcurrentInit /\ [][ConcurrentNext]_vars

\* ------------------------------------------------------------ failed writes
\* A write to the database may throw (a lost connection, a rejected write).
\* fault names the write of the call that throws, "none" if none does.
StockFaults == {"none", "transaction", "activity"}
UsageFaults == {"none", "usage.create", "activity.create"}

\* addProductStock when the $transaction array, or the activity.create that
\* follows it, throws: the array is rolled back as a whole; by the time
\* activity.create runs the array has committed
addProductStockFailing(d, productId, quantity, currentAmount, isInUse, addedBy, t, fault) ==
  LET r == addProductStockResult(d, productId, quantity, currentAmount, isInUse, addedBy, t) IN
  IF r.err # "none" \/ fault = "none" THEN r
  ELSE IF fault = "transaction" THEN Throw(d, "WriteFailed")
  ELSE Throw([r.db EXCEPT !.activities = d.activities], "WriteFailed")

\* recordProductUsage when the first or the last write of the $transaction
\* callback throws: the callback's writes up to the throw are rolled back
recordProductUsageFailing(d, productId, serviceTypeId, usageAmount, relatedProducts, recordedBy, t, fault) ==
  {IF r.err # "none" \/ fault = "none" THEN r
   ELSE IF fault = "usage.create" THEN Transaction(d, Throw(d, "WriteFailed"))
   ELSE Transaction(d, Throw([r.db EXCEPT !.activities = d.activities], "WriteFailed"))
   : r \in recordProductUsageResults(d, productId, serviceTypeId, usageAmount,
                                     relatedProducts, recordedBy, t)}

addProductStockFaulty(productId, quantity, currentAmount, isInUse, addedBy, fault) ==
  Respond("addProductStock",
          addProductStockFailing(DB, productId, quantity, currentAmount, isInUse,
                                 addedBy, now, fault))

recordProductUsageFaulty(productId, serviceTypeId, usageAmount, relatedProducts, recordedBy, fault) ==
  \E r \in recordProductUsageFailing(DB, productId, serviceTypeId, usageAmount,
                                     relatedProducts, recordedBy, now, fault) :
    Respond("recordProductUsage", r)

\* the inventory requests on one product, with writes that may fail
FaultsNext ==
  \/ Len(products) < 1 /\ createProduct("s1", Some(MaxAmount), 1)
  \/ \E l \in LotIds : startUsingProduct(l, "u1")
  \/ \E p \in ProductIds, q \in 1..MaxQuantity, s \in StockStates, u \in UserIds,
        fault \in StockFaults :
       Len(lots) < MaxLots /\ addProductStockFaulty(p, q, s[2], s[1], u, fault)
  \/ \E p \in ProductIds, st \in ServiceTypeIds, a \in Amounts, rel \in RelatedLists,
        u \in UserIds, fault \in UsageFaults :
       Len(usages) < MaxUsages /\ recordProductUsageFaulty(p, st, a, rel, u, fault)

SpecFaults == Init /\ [][FaultsNext]_vars

\* ------------------------------------------------------ service type catalog
\* Float amounts and designUsageRate are counted in hundredths (0.5 is 50,
\* a rate of 1.2 is 120); the length rates are Int percentages.
NailLengths == {"SHORT", "MEDIUM", "LONG"}
BaseAmounts == {25, 50, 200}
\* (designVariant, designUsageRate) of a service type
Designs == {<<Null, Null>>, <<Some("ART"), Some(0)>>, <<Some("ART"), Some(122)>>,
            <<Null, Some(125)>>}
LongRates == {130, 150}
\* the overrides a copy may give: none, a variant with its rate, a rate of 0
CopyDesigns == {<<Null, Null>>, <<Some("FRENCH"), Some(120)>>, <<Some(""), Some(0)>>}
Names == {"Regular", "French", "Art"}

\* a ServiceType row as createServiceType stores it, with the rates of the
\* length-adjustment test or the schema defaults
ServiceTypeRow(name, longLengthRate, design) ==
  [name |-> name, defaultUsageAmount |-> 50, productType |-> "POLISH_COLOR",
   isGelService |-> FALSE, requiresBase |-> FALSE, requiresTop |-> FALSE,
   shortLengthRate |-> 80, mediumLengthRate |-> 100,
   longLengthRate |-> longLengthRate, allowCustomAmount |-> FALSE,
   designVariant |-> design[1], designUsageRate |-> design[2], storeId |-> "s1"]

\* the k product associations of a service type: base, colour, top
Associations(serviceTypeId, k) ==
  [i \in 1..k |->
     [serviceTypeId |-> serviceTypeId, productId |-> i, usageAmount |-> 20 + 10 * i,
      isRequired |-> i # 2, productRole |-> Some(<<"BASE", "COLOR", "TOP", "OTHER">>[i]),
      order |-> i]]

\* a number? that an if (...) or || takes as present: not null, not 0
Truthy(x) == x # Null /\ Val(x) # 0

\* a string? that || takes as present: not null, not ""
TruthyString(x) == x # Null /\ Val(x) # ""

\* the integers nearest to n / d (n >= 0, d > 0).  A Float product or
\* quotient that is half way between two integers, up to the rounding error
\* of the Float operations, rounds to either
Nearest(n, d) ==
  {q \in {n \div d, (n \div d) + 1} : 2 * (IF q * d >= n THEN q * d - n ELSE n - q * d) <= d}

\* switch (nailLength) { ... default: ratePercentage = 100 }
LengthRate(row, nailLength) ==
  CASE nailLength = "SHORT" -> row.shortLengthRate
    [] nailLength = "MEDIUM" -> row.mediumLengthRate
    [] nailLength = "LONG" -> row.longLengthRate
    [] OTHER -> 100

\* DesignRate rounding down (Math.floor)
DesignRateFloor(ratePercentage, designUsageRate) ==
  {(ratePercentage * designUsageRate) \div 100}

\* Math.round(ratePercentage * serviceType.designUsageRate)
DesignRate(ratePercentage, designUsageRate) ==
  Nearest(ratePercentage * designUsageRate, 100)

\* parseFloat((baseAmount * (ratePercentage / 100)).toFixed(2)), in hundredths
Fixed2(baseAmount, ratePercentage) == Nearest(baseAmount * ratePercentage, 100)

\* the values the call can return, in hundredths
calculateAdjustedUsageAmount(row, baseAmount, nailLength) ==
  LET rates == IF Truthy(row.designUsageRate)
               THEN DesignRate(LengthRate(row, nailLength), Val(row.designUsageRate))
               ELSE {LengthRate(row, nailLength)}
  IN
  UNION {Fixed2(baseAmount, ratePercentage) : ratePercentage \in rates}

calculate(id, baseAmount, nailLength) ==
  /\ \E v \in calculateAdjustedUsageAmount(serviceType[id], baseAmount, nailLength) :
       ret' = [op |-> "calculateAdjustedUsageAmount", err |-> "none", value |-> v]
  /\ UNCHANGED <<products, lots, usages, relatedUsages, activities, now>>
  /\ UNCHANGED catalogVars

\* --------------------------------------------------------- copyServiceType
\* the catalog collections, as one value
Catalog == [serviceType |-> serviceType, serviceTypeProduct |-> serviceTypeProduct]

\* include: { serviceTypeProducts: true }: the ids of the source's rows
ProductsOf(rows, serviceTypeId) ==
  {i \in DOMAIN rows : rows[i].serviceTypeId = serviceTypeId}

\* serviceType.findFirst({ where: { name: newName, storeId } })
NameExists(rows, name, storeId) ==
  \E i \in DOMAIN rows : rows[i].name = name /\ rows[i].storeId = storeId

\* tx.serviceType.create data: the source's fields under the new name;
\* designVariant || source.designVariant, designUsageRate || source.designUsageRate
NewServiceType(source, newName, designVariant, designUsageRate) ==
  [source EXCEPT
     !.name = newName,
     !.designVariant = IF TruthyString(designVariant) THEN designVariant ELSE @,
     !.designUsageRate = IF Truthy(designUsageRate) THEN designUsageRate ELSE @]

\* CopyProducts that stops before the last association
RECURSIVE CopyProductsButLast(_, _, _, _)
CopyProductsButLast(rows, source, todo, newId) ==
  IF Cardinality(todo) <= 1 THEN rows
  ELSE LET i == CHOOSE j \in todo : \A k \in todo : j <= k IN
       CopyProductsButLast(Append1(rows, [source[i] EXCEPT !.serviceTypeId = newId]),
                           source, todo \ {i}, newId)

\* for (const product of sourceServiceType.serviceTypeProducts)
\*   tx.serviceTypeProduct.create(...), over the rows read before the transaction
RECURSIVE CopyProducts(_, _, _, _)
CopyProducts(rows, source, todo, newId) ==
  IF todo = {} THEN rows
  ELSE LET i == CHOOSE j \in todo : \A k \in todo : j <= k IN
       CopyProducts(Append1(rows, [source[i] EXCEPT !.serviceTypeId = newId]),
                    source, todo \ {i}, newId)

copyServiceTypeResult(d, sourceId, newName, designVariant, designUsageRate) ==
  IF sourceId \notin DOMAIN d.serviceType THEN Throw(d, "SourceNotFound")
  ELSE IF NameExists(d.serviceType, newName, d.serviceType[sourceId].storeId)
  THEN Throw(d, "NameExists")
  ELSE LET newId == Len(d.serviceType) + 1 IN
       Return([serviceType |->
                 Append1(d.serviceType,
                         NewServiceType(d.serviceType[sourceId], newName, designVariant,
                                        designUsageRate)),
               serviceTypeProduct |->
                 CopyProducts(d.serviceTypeProduct, d.serviceTypeProduct,
                              ProductsOf(d.serviceTypeProduct, sourceId), newId)])

copyServiceType(sourceId, newName, designVariant, designUsageRate) ==
  LET r == copyServiceTypeResult(Catalog, sourceId, newName, designVariant, designUsageRate) IN
  /\ serviceType' = r.db.serviceType
  /\ serviceTypeProduct' = r.db.serviceTypeProduct
  /\ ret' = [op |-> "copyServiceType", err |-> r.err, value |-> Len(r.db.serviceType)]
  /\ UNCHANGED <<products, lots, usages, relatedUsages, activities, now>>
  /\ UNCHANGED <<monthlyServiceStat, calls, issued, user, invitation>>

\* one service type of store s1 with 0..MaxAssociations product associations
CatalogInit ==
  /\ products = <<>>
  /\ lots = <<>>
  /\ usages = <<>>
  /\ relatedUsages = <<>>
  /\ activities = EmptyBag
  /\ now = 0
  /\ ret = [op |-> "init", err |-> "none", value |-> 0]
  /\ monthlyServiceStat = <<>>
  /\ user = <<>>
  /\ invitation = <<>>
  /\ \E longLengthRate \in LongRates, design \in Designs :
       serviceType = <<ServiceTypeRow("Regular", longLengthRate, design)>>
  /\ \E k \in 0..MaxAssociations : serviceTypeProduct = Associations(1, k)
  /\ calls = <<>>
  /\ issued = <<>>

CatalogNext ==
  \/ \E id \in DOMAIN serviceType, baseAmount \in BaseAmounts, nailLength \in NailLengths :
       calculate(id, baseAmount, nailLength)
  \/ \E sourceId \in 1..MaxServiceTypes, newName \in Names, design \in CopyDesigns :
       Len(serviceType) < MaxServiceTypes /\ copyServiceType(sourceId, newName, design[1], design[2])

SpecCatalog == CatalogInit /\ [][CatalogNext]_vars

\* ---------------------------------- createServiceType, updateServiceType
\* the products a createServiceType call may list; isRequired and order may
\* be left out (Null)
ProductParams ==
  {[productId |-> 1, usageAmount |-> 30, isRequired |-> Null,
    productRole |-> Some("COLOR"), order |-> Null]}

ProductParamLists == UNION {[1..k -> ProductParams] : k \in 0..2}

\* updateData: the fields of UpdateServiceTypeParams a call gives (Null: not
\* given)
UpdateData == [name : {Null} \cup {Some(n) : n \in Names},
               longLengthRate : {Null} \cup {Some(r) : r \in LongRates}]

\* the unique index without the check
NameTakenUnchecked(rows, id, name, storeId) == FALSE

\* @@unique([name, storeId]): a row other than id has the name in the store
NameTaken(rows, id, name, storeId) ==
  \E i \in DOMAIN rows : i # id /\ rows[i].name = name /\ rows[i].storeId = storeId

\* @@unique([serviceTypeId, productId])
PairTaken(rows, serviceTypeId, productId) ==
  \E i \in DOMAIN rows :
    rows[i].serviceTypeId = serviceTypeId /\ rows[i].productId = productId

\* product.isRequired ?? true, product.order ?? 0
OrElse(x, default) == IF IsNull(x) THEN default ELSE Val(x)

\* for (const product of products) tx.serviceTypeProduct.create(...)
RECURSIVE CreateProducts(_, _, _, _)
CreateProducts(rows, list, i, newId) ==
  IF i > Len(list) THEN [err |-> "none", rows |-> rows]
  ELSE IF PairTaken(rows, newId, list[i].productId)
  THEN [err |-> "UniqueConstraint", rows |-> rows]
  ELSE CreateProducts(
         Append1(rows, [serviceTypeId |-> newId, productId |-> list[i].productId,
                        usageAmount |-> list[i].usageAmount,
                        isRequired |-> OrElse(list[i].isRequired, TRUE),
                        productRole |-> list[i].productRole,
                        order |-> OrElse(list[i].order, 0)]),
         list, i + 1, newId)

\* the $transaction callback of createServiceType
createTransaction(d, name, storeId, list) ==
  IF NameTaken(d.serviceType, 0, name, storeId) THEN Throw(d, "UniqueConstraint")
  ELSE LET newId == Len(d.serviceType) + 1
           r == CreateProducts(d.serviceTypeProduct, list, 1, newId)
       IN
       IF r.err # "none" THEN Throw(d, r.err)
       ELSE Return([serviceType |->
                      Append1(d.serviceType,
                              [ServiceTypeRow(name, 130, <<Null, Null>>)
                                 EXCEPT !.storeId = storeId]),
                    serviceTypeProduct |-> r.rows])

createServiceTypeResult(d, name, storeId, list) ==
  IF storeId \notin Stores THEN Throw(d, "StoreNotFound")
  ELSE IF NameExists(d.serviceType, name, storeId) THEN Throw(d, "NameExists")
  ELSE createTransaction(d, name, storeId, list)

\* prisma.serviceType.update({ where: { id }, data: updateData })
updateWrite(d, id, updateData) ==
  IF id \notin DOMAIN d.serviceType THEN Throw(d, "RecordNotFound")
  ELSE IF /\ ~IsNull(updateData.name)
          /\ NameTaken(d.serviceType, id, Val(updateData.name), d.serviceType[id].storeId)
  THEN Throw(d, "UniqueConstraint")
  ELSE Return([d EXCEPT
                 !.serviceType[id].name = OrElse(updateData.name, @),
                 !.serviceType[id].longLengthRate = OrElse(updateData.longLengthRate, @)])

updateServiceTypeResult(d, id, updateData) ==
  IF id \notin DOMAIN d.serviceType THEN Throw(d, "ServiceTypeNotFound")
  ELSE updateWrite(d, id, updateData)

\* the $transaction callback of copyServiceType, on the source row and the
\* associations read before it
copyTransaction(d, source, sourceProducts, newName, designVariant, designUsageRate) ==
  IF NameTaken(d.serviceType, 0, newName, source.storeId) THEN Throw(d, "UniqueConstraint")
  ELSE Return([serviceType |->
                 Append1(d.serviceType,
                         NewServiceType(source, newName, designVariant, designUsageRate)),
               serviceTypeProduct |->
                 CopyProducts(d.serviceTypeProduct, sourceProducts, DOMAIN sourceProducts,
                              Len(d.serviceType) + 1)])

\* Two catalog requests served at once.  A call is at "find" (its reads and
\* the checks on them), then at "commit" (its $transaction or update), then
\* "done"
CreateCalls ==
  {Call("createServiceType", [name |-> n, storeId |-> s, products |-> ps])
   : n \in {"Regular", "French"}, s \in Stores \cup {"s0"},
     ps \in {l \in ProductParamLists : Len(l) <= 1}}

UpdateCalls ==
  {Call("updateServiceType", [id |-> id, updateData |-> u])
   : id \in 1..2,
     u \in {v \in UpdateData : v.name # Some("Art") /\ (IsNull(v.name) # IsNull(v.longLengthRate))}}

CopyCalls ==
  {Call("copyServiceType",
        [sourceId |-> id, newName |-> n, designVariant |-> Null, designUsageRate |-> Null])
   : id \in 1..2, n \in {"Regular", "French"}}

\* the reads of a catalog call and the error of the checks made on them
catalogFound(d, op, args) ==
  CASE op = "createServiceType" ->
         [err |-> IF args.storeId \notin Stores THEN "StoreNotFound"
                  ELSE IF NameExists(d.serviceType, args.name, args.storeId)
                  THEN "NameExists" ELSE "none",
          read |-> Null]
    [] op = "updateServiceType" ->
         [err |-> IF args.id \notin DOMAIN d.serviceType THEN "ServiceTypeNotFound"
                  ELSE "none",
          read |-> Null]
    [] op = "copyServiceType" ->
         IF args.sourceId \notin DOMAIN d.serviceType
         THEN [err |-> "SourceNotFound", read |-> Null]
         ELSE LET source == d.serviceType[args.sourceId]
                  ids == ProductsOf(d.serviceTypeProduct, args.sourceId)
              IN
              [err |-> IF NameExists(d.serviceType, args.newName, source.storeId)
                       THEN "NameExists" ELSE "none",
               read |-> Some([source |-> source,
                              products |-> SelectSeq(d.serviceTypeProduct,
                                             LAMBDA row : row.serviceTypeId = args.sourceId)])]

\* the write of a catalog call on the rows there are when it runs
catalogCommit(d, op, args, read) ==
  CASE op = "createServiceType" ->
         createTransaction(d, args.name, args.storeId, args.products)
    [] op = "updateServiceType" -> updateWrite(d, args.id, args.updateData)
    [] op = "copyServiceType" ->
         copyTransaction(d, Val(read).source, Val(read).products, args.newName,
                         args.designVariant, args.designUsageRate)

catalogFind(i) ==
  /\ calls[i].pc = "find"
  /\ LET r == catalogFound(Catalog, calls[i].op, calls[i].args) IN
     /\ calls' = [calls EXCEPT ![i].pc = IF r.err = "none" THEN "commit" ELSE "done",
                               ![i].read = r.read,
                               ![i].err = r.err]
     /\ ret' = IF r.err = "none" THEN ret ELSE [op |-> calls[i].op, err |-> r.err]
  /\ UNCHANGED <<products, lots, usages, relatedUsages, activities, now>>
  /\ UNCHANGED <<monthlyServiceStat, serviceType, serviceTypeProduct, issued, user, invitation>>

commit(i) ==
  /\ calls[i].pc = "commit"
  /\ LET r == catalogCommit(Catalog, calls[i].op, calls[i].args, calls[i].read) IN
     /\ serviceType' = r.db.serviceType
     /\ serviceTypeProduct' = r.db.serviceTypeProduct
     /\ calls' = [calls EXCEPT ![i].pc = "done", ![i].err = r.err]
     /\ ret' = [op |-> calls[i].op, err |-> r.err]
  /\ UNCHANGED <<products, lots, usages, relatedUsages, activities, now>>
  /\ UNCHANGED <<monthlyServiceStat, issued, user, invitation>>

\* the service types that createServiceType calls have made, when two calls
\* are issued
RECURSIVE Created(_)
Created(n) ==
  IF n = 0 THEN {[serviceType |-> <<>>, serviceTypeProduct |-> <<>>]}
  ELSE {createServiceTypeResult(d, name, storeId, list).db
        : d \in Created(n - 1), name \in {"Regular", "French"}, storeId \in Stores,
          list \in {l \in ProductParamLists : Len(l) <= 1}}

NamesInit ==
  /\ products = <<>>
  /\ lots = <<>>
  /\ usages = <<>>
  /\ relatedUsages = <<>>
  /\ activities = EmptyBag
  /\ now = 0
  /\ ret = [op |-> "init", err |-> "none"]
  /\ monthlyServiceStat = <<>>
  /\ user = <<>>
  /\ invitation = <<>>
  /\ \E d \in Created(MaxServiceTypes - 2) :
       /\ serviceType = d.serviceType
       /\ serviceTypeProduct = d.serviceTypeProduct
       /\ issued = d
  /\ calls \in [1..2 -> CreateCalls \cup UpdateCalls \cup CopyCalls]

NamesNext ==
  \/ \E i \in DOMAIN calls : catalogFind(i)
  \/ \E i \in DOMAIN calls : commit(i)

SpecNames == NamesInit /\ [][NamesNext]_vars

\* ------------------------------------------------ upsertServiceTypeProduct
\* the values of UpsertServiceTypeProductParams; isRequired, productRole and
\* order may be left out (Null)
UpsertAmounts == {30, 50}
UpsertRequired == {Null, Some(FALSE)}
UpsertRoles == {Null, Some("BASE"), Some("COLOR")}
UpsertOrders == {Null, Some(2)}

\* findFirst that finds no association
NoRelation(rows, serviceTypeId, productId) == Null

\* serviceTypeProduct.findFirst({ where: { serviceTypeId, productId } })
findRelation(rows, serviceTypeId, productId) ==
  LET found == {i \in DOMAIN rows : /\ rows[i].serviceTypeId = serviceTypeId
                                     /\ rows[i].productId = productId}
  IN IF found = {} THEN Null ELSE Some(CHOOSE i \in found : \A j \in found : i <= j)

\* d holds the catalog collections, prods the Product collection; a field
\* that data leaves undefined is not written by update and is null after
\* create
upsertServiceTypeProductResult(d, prods, serviceTypeId, productId, usageAmount, isRequired, productRole, order) ==
  IF serviceTypeId \notin DOMAIN d.serviceType THEN Throw(d, "ServiceTypeNotFound")
  ELSE IF productId \notin DOMAIN prods THEN Throw(d, "ProductNotFound")
  ELSE LET existingRelation == findRelation(d.serviceTypeProduct, serviceTypeId, productId) IN
       IF ~IsNull(existingRelation)
       THEN Return([d EXCEPT
                      !.serviceTypeProduct[Val(existingRelation)] =
                        [@ EXCEPT !.usageAmount = usageAmount,
                                  !.isRequired = OrElse(isRequired, TRUE),
                                  !.productRole = IF IsNull(productRole) THEN @ ELSE productRole,
                                  !.order = OrElse(order, 0)]])
       ELSE IF PairTaken(d.serviceTypeProduct, serviceTypeId, productId)
       THEN Throw(d, "UniqueConstraint")
       ELSE Return([d EXCEPT
                      !.serviceTypeProduct =
                        Append1(@, [serviceTypeId |-> serviceTypeId, productId |-> productId,
                                    usageAmount |-> usageAmount,
                                    isRequired |-> OrElse(isRequired, TRUE),
                                    productRole |-> productRole,
                                    order |-> OrElse(order, 0)])])

upsertServiceTypeProduct(serviceTypeId, productId, usageAmount, isRequired, productRole, order) ==
  LET r == upsertServiceTypeProductResult(Catalog, products, serviceTypeId, productId,
                                          usageAmount, isRequired, productRole, order)
  IN
  /\ serviceTypeProduct' = r.db.serviceTypeProduct
  /\ ret' = [op |-> "upsertServiceTypeProduct", err |-> r.err]
  /\ UNCHANGED <<products, lots, usages, relatedUsages, activities, now>>
  /\ UNCHANGED <<monthlyServiceStat, serviceType, calls, issued, user, invitation>>

\* the rows without row i
Without(rows, i) == [j \in 1..(Len(rows) - 1) |-> IF j < i THEN rows[j] ELSE rows[j + 1]]

removeProductFromServiceTypeResult(d, serviceTypeId, productId) ==
  LET existingRelation == findRelation(d.serviceTypeProduct, serviceTypeId, productId) IN
  IF IsNull(existingRelation) THEN Throw(d, "NotAssociated")
  ELSE Return([d EXCEPT !.serviceTypeProduct = Without(@, Val(existingRelation))])

removeProductFromServiceType(serviceTypeId, productId) ==
  LET r == removeProductFromServiceTypeResult(Catalog, serviceTypeId, productId) IN
  /\ serviceTypeProduct' = r.db.serviceTypeProduct
  /\ ret' = [op |-> "removeProductFromServiceType", err |-> r.err]
  /\ UNCHANGED <<products, lots, usages, relatedUsages, activities, now>>
  /\ UNCHANGED <<monthlyServiceStat, serviceType, calls, issued, user, invitation>>

\* a store with two products and one service type that has no association
AssociationsInit ==
  LET empty == [products |-> <<>>, lots |-> <<>>, usages |-> <<>>,
                relatedUsages |-> <<>>, activities |-> EmptyBag]
      one == createProductResult(empty, "s1", Some(MaxAmount), 0).db
      two == createProductResult(one, "s1", Some(MaxAmount), 0).db
      catalog == createServiceTypeResult([serviceType |-> <<>>, serviceTypeProduct |-> <<>>],
                                         "Regular", "s1", <<>>).db
  IN
  /\ products = two.products
  /\ lots = two.lots
  /\ usages = two.usages
  /\ relatedUsages = two.relatedUsages
  /\ activities = two.activities
  /\ now = 0
  /\ ret = [op |-> "init", err |-> "none"]
  /\ monthlyServiceStat = <<>>
  /\ user = <<>>
  /\ invitation = <<>>
  /\ serviceType = catalog.serviceType
  /\ serviceTypeProduct = catalog.serviceTypeProduct
  /\ calls = <<>>
  /\ issued = <<>>

AssociationsNext ==
  \/ \E st \in 1..2, p \in 1..3, a \in UpsertAmounts, req \in UpsertRequired,
        role \in UpsertRoles, order \in UpsertOrders :
       upsertServiceTypeProduct(st, p, a, req, role, order)
  \/ \E st \in 1..2, p \in 1..3 : removeProductFromServiceType(st, p)

SpecAssociations == AssociationsInit /\ [][AssociationsNext]_vars

\* ----------------------------------------------- updateProduct, getProductStock
\* the capacities of the products of the stock reports: none, 0, a bottle
StockCapacities == {Null, Some(0), Some(MaxAmount)}

\* updateData: the fields of UpdateProductParams a call gives (Null: not
\* given) that the stock operations read
UpdateProductData ==
  {[capacity |-> c, totalQuantity |-> q, minStockAlert |-> m]
   : c \in {Null, Some(1)}, q \in {Null, Some(MaxQuantity)}, m \in {Null, Some(0), Some(1)}}

\* prisma.product.update({ where: { id }, data: updateData })
updateProductResult(d, id, updateData) ==
  IF id \notin DOMAIN d.products THEN Throw(d, "ProductNotFound")
  ELSE Return([d EXCEPT
                 !.products[id].capacity =
                   IF IsNull(updateData.capacity) THEN @ ELSE updateData.capacity,
                 !.products[id].totalQuantity = OrElse(updateData.totalQuantity, @),
                 !.products[id].minStockAlert = OrElse(updateData.minStockAlert, @)])

updateProduct(id, updateData) ==
  Respond("updateProduct", updateProductResult(DB, id, updateData))

\* inUseLots.reduce((sum, lot) => sum + (lot.currentAmount || 0), 0)
RECURSIVE InUseAmount(_, _)
InUseAmount(ls, todo) ==
  IF todo = {} THEN 0
  ELSE LET l == CHOOSE x \in todo : TRUE IN
       (IF Truthy(ls[l].currentAmount) THEN Val(ls[l].currentAmount) ELSE 0)
         + InUseAmount(ls, todo \ {l})

\* IsLowStock with < for <=
IsLowStockBelow(product) == product.lotQuantity < product.minStockAlert

\* product.lotQuantity <= product.minStockAlert
IsLowStock(product) == product.lotQuantity <= product.minStockAlert

\* what getProductStock returns: the product, the two totals, the ids of the
\* two kinds of lots, the flag
StockReport(d, productId) ==
  LET product == d.products[productId]
      inUseLots == InUseLotsOf(d.lots, productId)
      unusedLots == {l \in DOMAIN d.lots : /\ d.lots[l].productId = productId
                                          /\ ~d.lots[l].isInUse}
  IN
  [product |-> product,
   totalCapacity |-> IF Truthy(product.capacity)
                     THEN product.totalQuantity * Val(product.capacity)
                     ELSE product.totalQuantity,
   currentTotal |-> IF Truthy(product.capacity)
                    THEN InUseAmount(d.lots, inUseLots)
                           + Cardinality(unusedLots) * Val(product.capacity)
                    ELSE product.lotQuantity + Cardinality(inUseLots),
   inUseLots |-> inUseLots,
   unusedLots |-> unusedLots,
   isLowStock |-> IsLowStock(product)]

getProductStockResult(d, productId) ==
  IF productId \notin DOMAIN d.products
  THEN [err |-> "ProductNotFound", db |-> d, value |-> Null]
  ELSE [err |-> "none", db |-> d, value |-> Some(StockReport(d, productId))]

getProductStock(productId) ==
  LET r == getProductStockResult(DB, productId) IN
  /\ ret' = [op |-> "getProductStock", err |-> r.err, value |-> r.value]
  /\ Write(r.db)
  /\ UNCHANGED now
  /\ UNCHANGED catalogVars

StockNext ==
  \/ \E c \in StockCapacities, n \in 0..MaxQuantity :
       /\ Len(products) < MaxProducts - 1
       /\ RoomFor(1, n, 0)
       /\ createProduct("s1", c, n)
  \/ \E p \in ProductIds, s \in StockStates :
       RoomFor(0, 1, 0) /\ addProductStock(p, 1, s[2], s[1], "u1")
  \/ \E l \in LotIds : startUsingProduct(l, "u1")
  \/ \E p \in ProductIds, a \in Amounts :
       RoomFor(0, 0, 1) /\ recordProductUsage(p, "t1", a, <<>>, "u1")
  \/ \E id \in ProductIds, updateData \in UpdateProductData : updateProduct(id, updateData)
  \/ \E id \in ProductIds : getProductStock(id)

SpecStock == Init /\ [][StockNext]_vars

\* ------------------------------------------------- invitations and staff
\* The clock counts invitation lifetimes: an invitation made at t expires at
\* t + 1 (48 hours later).
Tokens == {"k1", "k2"}
Emails == {"hanako@salon", "yuki@salon"}

\* the auth collections, as one value
Auth == [user |-> user, invitation |-> invitation]

\* prisma.invitation.findUnique({ where: { token } })
findInvitation(rows, token) ==
  LET found == {i \in DOMAIN rows : rows[i].token = token} IN
  IF found = {} THEN Null ELSE Some(CHOOSE i \in found : TRUE)

createInvitationResult(d, email, storeId, token, t) ==
  IF \E i \in DOMAIN d.invitation :
       /\ d.invitation[i].email = Some(email) /\ d.invitation[i].storeId = storeId
       /\ ~d.invitation[i].used /\ d.invitation[i].expires > t
  THEN Throw(d, "AlreadyInvited")
  ELSE IF \E u \in DOMAIN d.user : d.user[u].email = email /\ d.user[u].storeId = storeId
  THEN Throw(d, "AlreadyUser")
  ELSE IF storeId \notin Stores THEN Throw(d, "StoreNotFound")
  ELSE IF ~IsNull(findInvitation(d.invitation, token)) THEN Throw(d, "InvitationError")
  ELSE Return([d EXCEPT
                 !.invitation =
                   Append1(@, [email |-> Some(email), role |-> "NAIL_TECHNICIAN",
                               token |-> token, expires |-> t + 1, used |-> FALSE,
                               storeId |-> storeId])])

createInvitation(email, storeId, token) ==
  LET r == createInvitationResult(Auth, email, storeId, token, now) IN
  /\ invitation' = r.db.invitation
  /\ ret' = [op |-> "createInvitation", err |-> r.err]
  /\ UNCHANGED <<products, lots, usages, relatedUsages, activities, now>>
  /\ UNCHANGED <<monthlyServiceStat, serviceType, serviceTypeProduct, calls, issued, user>>

\* isValid is false with one of three errors, or true
validateInvitationResult(d, token, t) ==
  LET found == findInvitation(d.invitation, token) IN
  IF IsNull(found) THEN Throw(d, "NotFound")
  ELSE IF d.invitation[Val(found)].used THEN Throw(d, "Used")
  ELSE IF d.invitation[Val(found)].expires < t THEN Throw(d, "Expired")
  ELSE Return(d)

validateInvitation(token) ==
  LET r == validateInvitationResult(Auth, token, now) IN
  /\ ret' = [op |-> "validateInvitation", err |-> r.err]
  /\ user' = r.db.user
  /\ invitation' = r.db.invitation
  /\ UNCHANGED <<products, lots, usages, relatedUsages, activities, now>>
  /\ UNCHANGED <<monthlyServiceStat, serviceType, serviceTypeProduct, calls, issued>>

\* registerStaff up to user.create: the invitation read and the checks on it
registerFind(d, token, t) ==
  LET found == findInvitation(d.invitation, token) IN
  IF \/ IsNull(found)
     \/ d.invitation[Val(found)].used
     \/ d.invitation[Val(found)].expires < t
  THEN [err |-> "InvalidInvitation", read |-> Null]
  ELSE IF IsNull(d.invitation[Val(found)].email) THEN [err |-> "NoEmail", read |-> Null]
  ELSE [err |-> "none", read |-> Some([id |-> Val(found), row |-> d.invitation[Val(found)]])]

\* the unique index without the check
EmailTakenUnchecked(rows, email) == FALSE

\* email String @unique of User
EmailTaken(rows, email) == \E u \in DOMAIN rows : rows[u].email = email

\* prisma.user.create with the fields of the invitation as it was read; an
\* error is caught and reported
registerCreate(d, read) ==
  IF EmailTaken(d.user, Val(read.row.email)) THEN Throw(d, "RegistrationError")
  ELSE Return([d EXCEPT
                 !.user = Append1(@, [email |-> Val(read.row.email), role |-> read.row.role,
                                      storeId |-> read.row.storeId])])

\* prisma.invitation.update({ where: { id: invitation.id }, data: { used: true } })
registerUpdate(d, read) == Return([d EXCEPT !.invitation[read.id].used = TRUE])

\* a registerStaff call with no other call between its steps
registerStaffResult(d, token, t) ==
  LET found == registerFind(d, token, t) IN
  IF found.err # "none" THEN Throw(d, found.err)
  ELSE LET created == registerCreate(d, Val(found.read)) IN
       IF created.err # "none" THEN created
       ELSE registerUpdate(created.db, Val(found.read))

\* Two registerStaff requests served at once.  A call is at "find", then at
\* "create" (user.create), then at "update" (invitation.update), then "done";
\* a request comes in when fewer than two are being served
staffRequest(i, token) ==
  /\ \/ i = Len(calls) + 1
     \/ i \in DOMAIN calls /\ calls[i].pc = "done"
  /\ calls' = [j \in DOMAIN calls \cup {i} |->
                 IF j = i THEN Call("registerStaff", [token |-> token]) ELSE calls[j]]
  /\ UNCHANGED <<products, lots, usages, relatedUsages, activities, now, ret>>
  /\ UNCHANGED <<monthlyServiceStat, serviceType, serviceTypeProduct, issued, user, invitation>>

staffFind(i) ==
  /\ calls[i].pc = "find"
  /\ LET r == registerFind(Auth, calls[i].args.token, now) IN
     /\ calls' = [calls EXCEPT ![i].pc = IF r.err = "none" THEN "create" ELSE "done",
                               ![i].read = r.read,
                               ![i].err = r.err]
     /\ ret' = IF r.err = "none" THEN ret ELSE [op |-> "registerStaff", err |-> r.err]
  /\ UNCHANGED <<products, lots, usages, relatedUsages, activities, now>>
  /\ UNCHANGED <<monthlyServiceStat, serviceType, serviceTypeProduct, issued, user, invitation>>

staffCreate(i) ==
  /\ calls[i].pc = "create"
  /\ Len(user) < MaxStaff
  /\ LET r == registerCreate(Auth, Val(calls[i].read)) IN
     /\ user' = r.db.user
     /\ calls' = [calls EXCEPT ![i].pc = IF r.err = "none" THEN "update" ELSE "done",
                               ![i].err = r.err]
     /\ ret' = IF r.err = "none" THEN ret ELSE [op |-> "registerStaff", err |-> r.err]
  /\ UNCHANGED <<products, lots, usages, relatedUsages, activities, now>>
  /\ UNCHANGED <<monthlyServiceStat, serviceType, serviceTypeProduct, issued, invitation>>

staffUpdate(i) ==
  /\ calls[i].pc = "update"
  /\ LET r == registerUpdate(Auth, Val(calls[i].read)) IN
     /\ invitation' = r.db.invitation
     /\ calls' = [calls EXCEPT ![i].pc = "done", ![i].err = r.err]
     /\ ret' = [op |-> "registerStaff", err |-> r.err]
  /\ UNCHANGED <<products, lots, usages, relatedUsages, activities, now>>
  /\ UNCHANGED <<monthlyServiceStat, serviceType, serviceTypeProduct, issued, user>>

\* time passes, up to one lifetime after the last invitation can be made
Clock ==
  /\ now < MaxTime + 1
  /\ now' = now + 1
  /\ UNCHANGED <<products, lots, usages, relatedUsages, activities, ret>>
  /\ UNCHANGED catalogVars

InvitationsNext ==
  \/ Clock
  \/ \E email \in Emails, storeId \in StoreIds, token \in Tokens :
       Len(invitation) < MaxInvitations /\ createInvitation(email, storeId, token)
  \/ \E token \in Tokens : validateInvitation(token)
  \/ \E i \in 1..2, token \in Tokens : staffRequest(i, token)
  \/ \E i \in DOMAIN calls : staffFind(i)
  \/ \E i \in DOMAIN calls : staffCreate(i)
  \/ \E i \in DOMAIN calls : staffUpdate(i)

SpecInvitations == Init /\ [][InvitationsNext]_vars

\* ------------------------------------------------------------- two stores
\* products of two stores, their bottles taken into use, and service events
\* that name any product as primary or related
StoresNext ==
  \/ \E s \in Stores, n \in 0..1 : RoomFor(1, n, 0) /\ createProduct(s, Some(MaxAmount), n)
  \/ \E l \in LotIds : startUsingProduct(l, "u1")
  \/ \E p \in ProductIds, a \in Amounts,
        rel \in UNION {[1..k -> [productId : ProductIds, amount : {1}]] : k \in 0..1} :
       RoomFor(0, 0, 1) /\ recordProductUsage(p, "t1", a, rel, "u1")
  \/ \E id \in ProductIds : getProductStock(id)

SpecStores == Init /\ [][StoresNext]_vars

\* ------------------------------------------------- several service events
\* bottles taken into use, or added in use with what is left in them, and one
\* more service event than Spec has, each with at most one related product;
\* ids of missing service types and products make calls fail
UsagesNext ==
  \/ RoomFor(1, 1, 0) /\ createProduct("s1", Some(MaxAmount), 1)
  \/ \E p \in ProductIds, s \in StockStates :
       RoomFor(0, 1, 0) /\ addProductStock(p, 1, s[2], s[1], "u1")
  \/ \E l \in LotIds : startUsingProduct(l, "u1")
  \/ \E p \in 1..(MaxProducts + 1), st \in ServiceTypeIds, a \in Amounts,
        rel \in UNION {[1..k -> [productId : 1..(MaxProducts + 1), amount : {1}]]
                       : k \in 0..1} :
       recordProductUsage(p, st, a, rel, "u1") /\ Len(usages') <= MaxUsages + 1

SpecUsages == Init /\ [][UsagesNext]_vars

\* -------------------------------------------------- createProduct in steps
\* createProduct awaits the store lookup, product.create and each
\* productLot.create in turn, outside any transaction: a call is at "find",
\* then at "create", then at "lot" once per lot, then "done".  read holds the
\* new product's id and the number of lots made so far.  Another request
\* (here getProductStock) can run between two steps, and a write may throw.
createRequest(storeId, capacity, totalQuantity) ==
  /\ \A i \in DOMAIN calls : calls[i].pc = "done"
  /\ calls' = <<Call("createProduct", [storeId |-> storeId, capacity |-> capacity,
                                       totalQuantity |-> totalQuantity])>>
  /\ UNCHANGED <<products, lots, usages, relatedUsages, activities, now, ret>>
  /\ UNCHANGED <<monthlyServiceStat, serviceType, serviceTypeProduct, issued, user, invitation>>

createFind(i) ==
  /\ calls[i].op = "createProduct" /\ calls[i].pc = "find"
  /\ LET err == IF calls[i].args.storeId \notin Stores THEN "StoreNotFound" ELSE "none" IN
     /\ calls' = [calls EXCEPT ![i].pc = IF err = "none" THEN "create" ELSE "done",
                               ![i].err = err]
     /\ ret' = IF err = "none" THEN ret ELSE [op |-> "createProduct", err |-> err]
  /\ UNCHANGED <<products, lots, usages, relatedUsages, activities, now>>
  /\ UNCHANGED <<monthlyServiceStat, serviceType, serviceTypeProduct, issued, user, invitation>>

\* prisma.product.create, with lotQuantity: totalQuantity
createWrite(i) ==
  /\ calls[i].op = "createProduct" /\ calls[i].pc = "create"
  /\ LET args == calls[i].args
         last == args.totalQuantity <= 0
     IN
     /\ products' = Append1(products, NewProduct(args.storeId, args.capacity,
                                                 args.totalQuantity))
     /\ calls' = [calls EXCEPT ![i].pc = IF last THEN "done" ELSE "lot",
                               ![i].read = Some([id |-> Len(products) + 1, made |-> 0])]
     /\ ret' = IF last THEN [op |-> "createProduct", err |-> "none"] ELSE ret
  /\ UNCHANGED <<lots, usages, relatedUsages, activities, now>>
  /\ UNCHANGED <<monthlyServiceStat, serviceType, serviceTypeProduct, issued, user, invitation>>

\* one productLot.create of the loop; fails: the write throws and the call
\* ends with the error
createLot(i, fails) ==
  /\ calls[i].op = "createProduct" /\ calls[i].pc = "lot"
  /\ LET read == Val(calls[i].read)
         last == read.made + 1 >= calls[i].args.totalQuantity
     IN
     IF fails
     THEN /\ calls' = [calls EXCEPT ![i].pc = "done", ![i].err = "LotCreateFailed"]
          /\ ret' = [op |-> "createProduct", err |-> "LotCreateFailed"]
          /\ UNCHANGED lots
     ELSE /\ lots' = CreateLots(lots, read.id, 1)
          /\ calls' = [calls EXCEPT ![i].pc = IF last THEN "done" ELSE "lot",
                                    ![i].read = Some([read EXCEPT !.made = @ + 1])]
          /\ ret' = IF last THEN [op |-> "createProduct", err |-> "none"] ELSE ret
  /\ UNCHANGED <<products, usages, relatedUsages, activities, now>>
  /\ UNCHANGED <<monthlyServiceStat, serviceType, serviceTypeProduct, issued, user, invitation>>

CreateNext ==
  \/ \E s \in StoreIds, c \in Capacities, n \in 0..MaxQuantity :
       RoomFor(1, n, 0) /\ createRequest(s, c, n)
  \/ \E i \in DOMAIN calls : createFind(i)
  \/ \E i \in DOMAIN calls : createWrite(i)
  \/ \E i \in DOMAIN calls, fails \in BOOLEAN : createLot(i, fails)
  \/ \E l \in LotIds : startUsingProduct(l, "u1")
  \/ \E id \in ProductIds : getProductStock(id)

SpecCreate == Init /\ [][CreateNext]_vars

\* ================================================================== claims
\* the lots of product p, those with isInUse = true, those with isInUse = false
AllOf(ls, p) == {l \in DOMAIN ls : ls[l].productId = p}
InUseOf(ls, p) == {l \in DOMAIN ls : ls[l].productId = p /\ ls[l].isInUse}
UnusedOf(ls, p) == {l \in DOMAIN ls : ls[l].productId = p /\ ~ls[l].isInUse}

\* l is an in-use lot of p started no later than any other in-use lot of p
IsOldestInUse(ls, p, l) ==
  /\ l \in DOMAIN ls
  /\ ls[l].productId = p
  /\ ls[l].isInUse
  /\ \A m \in DOMAIN ls :
       (ls[m].productId = p /\ ls[m].isInUse) =>
         Val(ls[l].startedAt) <= Val(ls[m].startedAt)

OldestInUse(ls, p) == {l \in DOMAIN ls : IsOldestInUse(ls, p, l)}

CountersAddUp(product) ==
  product.totalQuantity = product.inUseQuantity + product.lotQuantity

\* C1: after any sequence of createProduct, addProductStock, startUsingProduct
\* and recordProductUsage calls run one at a time, every product has
\* totalQuantity = inUseQuantity + lotQuantity.
C1_TotalIsInUsePlusLot ==
  \A p \in DOMAIN products : CountersAddUp(products[p])

\* a product that has had stock added, a lot started and a usage recorded
C1_Witness ==
  \E p \in DOMAIN products :
    /\ products[p].inUseQuantity >= 1
    /\ products[p].lotQuantity >= 1
    /\ products[p].usageCount >= 1
    /\ BagIn(Activity("u1", "ADD_STOCK", p), activities)
    /\ BagIn(Activity("u1", "START_USING", p), activities)

\* C2: each product's counters equal the sizes of its lot set: lotQuantity
\* the number of its unused lots, inUseQuantity the number of its in-use lots,
\* totalQuantity the number of its lots.
C2_CountersMatchLots ==
  \A p \in DOMAIN products :
    /\ products[p].lotQuantity = Cardinality(UnusedOf(lots, p))
    /\ products[p].inUseQuantity = Cardinality(InUseOf(lots, p))
    /\ products[p].totalQuantity = Cardinality(AllOf(lots, p))
\* C3: a createProduct call with totalQuantity = n on an existing store
\* returns and leaves exactly n lots for the new product, all unused, with
\* lotQuantity = n and inUseQuantity = 0; on a store that does not exist it
\* fails and creates neither a product nor a lot.
C3_CreateProductLots ==
  \A s \in StoreIds, c \in Capacities, n \in 0..MaxQuantity :
    LET r == createProductResult(DB, s, c, n)
        id == Len(products) + 1
    IN
    IF s \in Stores
    THEN /\ r.err = "none"
         /\ DOMAIN r.db.products = DOMAIN products \cup {id}
         /\ Cardinality(AllOf(r.db.lots, id)) = n
         /\ \A l \in AllOf(r.db.lots, id) : ~r.db.lots[l].isInUse
         /\ r.db.products[id].lotQuantity = n
         /\ r.db.products[id].inUseQuantity = 0
         /\ \A l \in DOMAIN lots : l \in DOMAIN r.db.lots /\ r.db.lots[l] = lots[l]
    ELSE r.err # "none" /\ r.db = DB

\* createProduct has just returned a product with MaxQuantity unused lots
C3_Witness ==
  /\ ret = [op |-> "createProduct", err |-> "none"]
  /\ products[Len(products)].totalQuantity = MaxQuantity
  /\ Cardinality(UnusedOf(lots, Len(products))) = MaxQuantity

\* C4: startUsingProduct on a lot that a startUsingProduct call has moved to
\* in use fails with the already-in-use error and leaves the lots and the
\* product counters as they were, so totalQuantity = inUseQuantity +
\* lotQuantity still holds.
C4_SecondStartFails ==
  /\ \A l \in DOMAIN lots, u \in UserIds :
       LET first == startUsingProductResult(DB, l, u, now) IN
       first.err = "none" =>
         /\ first.db.lots[l].isInUse
         /\ \A v \in UserIds, t \in now..(now + 1) :
              LET second == startUsingProductResult(first.db, l, v, t) IN
              /\ second.err = "AlreadyInUse"
              /\ second.db = first.db
              /\ \A p \in DOMAIN second.db.products :
                   CountersAddUp(second.db.products[p])
  /\ \A l \in DOMAIN lots, u \in UserIds :
       lots[l].isInUse =>
         startUsingProductResult(DB, l, u, now) = Throw(DB, "AlreadyInUse")

\* a second startUsingProduct on a started lot has just failed
C4_Witness ==
  /\ ret = [op |-> "startUsingProduct", err |-> "AlreadyInUse"]
  /\ BagCardinality(activities) >= 1
  /\ \E l \in DOMAIN lots :
       /\ lots[l].isInUse
       /\ BagIn(Activity("u1", "START_USING", lots[l].productId), activities)

\* C5: a recordProductUsage call with no related products whose selected lot
\* has currentAmount = c: if usageAmount a <= c (and the service type and the
\* user exist) the call leaves that lot with currentAmount = c - a and adds
\* exactly one Usage row; if a > c the call fails and leaves every lot, the
\* product and the Usage rows unchanged.
C5_UsageDecrementsOrFails ==
  \A p \in DOMAIN products, a \in Amounts :
    LET first == OldestInUse(lots, p) IN
    (first # {} /\ \A l \in first : ~IsNull(lots[l].currentAmount)) =>
      \A st \in ServiceTypeIds, u \in UserIds :
        \A r \in recordProductUsageResults(DB, p, st, a, <<>>, u, now) :
          \E usedLot \in first :
            LET c == Val(lots[usedLot].currentAmount) IN
            IF a <= c
            THEN (st \in ServiceTypes /\ u \in Users) =>
                   /\ r.err = "none"
                   /\ r.db.lots[usedLot].currentAmount = Some(c - a)
                   /\ \A l \in DOMAIN lots \ {usedLot} : r.db.lots[l] = lots[l]
                   /\ Len(r.db.usages) = Len(usages) + 1
                   /\ \A i \in DOMAIN usages : r.db.usages[i] = usages[i]
                   /\ r.db.usages[Len(usages) + 1].usedLotId = usedLot
                   /\ r.db.usages[Len(usages) + 1].usageAmount = a
                   /\ r.db.relatedUsages = relatedUsages
            ELSE /\ r.err # "none"
                 /\ r.db = DB

\* a usage without related products has just been recorded against a lot
\* that holds an amount
C5_Witness ==
  /\ ret = [op |-> "recordProductUsage", err |-> "none"]
  /\ Len(usages) = 1
  /\ relatedUsages = <<>>
  /\ lots[usages[1].usedLotId].currentAmount = Some(MaxAmount - usages[1].usageAmount)

\* C6: a recordProductUsage call with two related products, one of which has
\* no in-use lot, fails, and after it the lots, the products, and the Usage,
\* RelatedProductUsage and Activity rows are the same as before the call.
C6_MissingRelatedLotRollsBack ==
  \A p \in 1..(MaxProducts + 1), a \in Amounts,
     rel \in [1..2 -> [productId : 1..(MaxProducts + 1), amount : {MaxAmount}]] :
    (\E i \in DOMAIN rel :
       \/ rel[i].productId \notin DOMAIN products
       \/ InUseOf(lots, rel[i].productId) = {}) =>
      \A st \in ServiceTypeIds, u \in UserIds :
        \A r \in recordProductUsageResults(DB, p, st, a, rel, u, now) :
          r.err # "none" /\ r.db = DB

\* a usage event over three products has just failed for want of an in-use
\* lot of a related product: two products have an in-use lot, the third has
\* none
C6_Witness ==
  /\ ret = [op |-> "recordProductUsage", err |-> "NoRelatedLots"]
  /\ \E p, q, r \in DOMAIN products :
       /\ p # q /\ p # r /\ q # r
       /\ InUseOf(lots, p) # {}
       /\ InUseOf(lots, q) # {}
       /\ InUseOf(lots, r) = {}
\* C7: a recordProductUsage call in which a related-product entry asks for
\* more than the currentAmount of that product's oldest in-use lot fails,
\* decrements no lot and creates no Usage or RelatedProductUsage row.
C7_RelatedShortageAborts ==
  \A p \in ProductIds, a \in Amounts, rel \in RelatedLists :
    (\E i \in DOMAIN rel :
       /\ rel[i].productId \in DOMAIN products
       /\ InUseOf(lots, rel[i].productId) # {}
       /\ \A l \in InUseOf(lots, rel[i].productId) :
            IsOldestInUse(lots, rel[i].productId, l) =>
              /\ ~IsNull(lots[l].currentAmount)
              /\ rel[i].amount > Val(lots[l].currentAmount)) =>
      \A st \in ServiceTypeIds, u \in UserIds :
        \A r \in recordProductUsageResults(DB, p, st, a, rel, u, now) :
          /\ r.err # "none"
          /\ r.db.lots = lots
          /\ r.db.usages = usages
          /\ r.db.relatedUsages = relatedUsages

\* C8: every in-use lot has currentAmount >= 0.
C8_InUseAmountNonNegative ==
  \A l \in DOMAIN lots :
    (lots[l].isInUse /\ ~IsNull(lots[l].currentAmount)) =>
      Val(lots[l].currentAmount) >= 0

\* C9: every successful recordProductUsage draws the primary product from the
\* in-use lot of that product with the earliest startedAt and each related
\* product from that product's own earliest-started in-use lot; the new Usage
\* and RelatedProductUsage rows reference those lots, and no other lot's
\* currentAmount changes.
C9_OldestLotFirst ==
  /\ \A l \in DOMAIN lots : lots[l].isInUse => ~IsNull(lots[l].startedAt)
  /\ \A p \in ProductIds, st \in ServiceTypeIds, a \in Amounts, rel \in RelatedLists,
        u \in UserIds :
       \A r \in recordProductUsageResults(DB, p, st, a, rel, u, now) :
         r.err = "none" =>
           LET usage == r.db.usages[Len(usages) + 1]
               row(i) == r.db.relatedUsages[Len(relatedUsages) + i]
               drawn == {usage.usedLotId} \cup {row(i).usedLotId : i \in DOMAIN rel}
           IN
           /\ Len(r.db.usages) = Len(usages) + 1
           /\ Len(r.db.relatedUsages) = Len(relatedUsages) + Len(rel)
           /\ usage.productId = p
           /\ IsOldestInUse(lots, p, usage.usedLotId)
           /\ \A i \in DOMAIN rel :
                /\ row(i).usageId = Len(usages) + 1
                /\ row(i).productId = rel[i].productId
                /\ IsOldestInUse(lots, rel[i].productId, row(i).usedLotId)
           /\ DOMAIN r.db.lots = DOMAIN lots
           /\ \A l \in DOMAIN lots \ drawn :
                r.db.lots[l].currentAmount = lots[l].currentAmount

\* a usage has just been recorded for a product with two in-use lots started
\* at different times: the primary draw and a related draw both took the lot
\* started first
C9_Witness ==
  /\ ret = [op |-> "recordProductUsage", err |-> "none"]
  /\ Len(usages) = 1
  /\ Len(relatedUsages) >= 1
  /\ \E l, m \in DOMAIN lots :
       /\ lots[l].productId = lots[m].productId
       /\ lots[l].isInUse /\ lots[m].isInUse
       /\ Val(lots[l].startedAt) < Val(lots[m].startedAt)
       /\ usages[1].usedLotId = l
       /\ relatedUsages[1].usedLotId = l

\* C10: recordProductUsage on a product with no in-use lot fails with the
\* out-of-stock error, whatever unused lots there are, and changes no lot,
\* product, Usage or Activity row.
C10_NoInUseLotIsOutOfStock ==
  \A p \in DOMAIN products :
    InUseOf(lots, p) = {} =>
      \A st \in ServiceTypeIds, a \in Amounts, rel \in RelatedLists, u \in UserIds :
        recordProductUsageResults(DB, p, st, a, rel, u, now)
          = {Throw(DB, "OutOfStock")}

\* recordProductUsage has just failed as out of stock while no product has
\* an in-use lot and some product has an unused one
C10_Witness ==
  /\ ret = [op |-> "recordProductUsage", err |-> "OutOfStock"]
  /\ \A p \in DOMAIN products : \A l \in AllOf(lots, p) : ~lots[l].isInUse
  /\ \E l \in DOMAIN lots : ~lots[l].isInUse

\* the MonthlyServiceStat rows of key (serviceTypeId, year, month)
StatsOf(rows, serviceTypeId, year, month) ==
  {i \in DOMAIN rows :
     /\ rows[i].serviceTypeId = serviceTypeId
     /\ rows[i].year = year
     /\ rows[i].month = month}

\* the Usage rows of a service type dated in a month
UsagesIn(serviceTypeId, year, month) ==
  {i \in DOMAIN usages :
     /\ usages[i].serviceTypeId = serviceTypeId
     /\ usages[i].date \div 12 = year
     /\ (usages[i].date % 12) + 1 = month}

RECURSIVE SumOver(_, _)
SumOver(f, S) ==
  IF S = {} THEN 0
  ELSE LET x == CHOOSE y \in S : TRUE IN f[x] + SumOver(f, S \ {x})

\* C11: once a recordProductUsage call has returned a Usage row, the
\* MonthlyServiceStat row of the usage's service type and (year, month)
\* exists and counts that usage: its usageCount is at least the number of
\* Usage rows of that key and its totalUsage at least the sum of their
\* usageAmount.
C11_UsageUpdatesMonthlyStats ==
  \A i \in DOMAIN usages :
    LET year == usages[i].date \div 12
        month == (usages[i].date % 12) + 1
        recorded == UsagesIn(usages[i].serviceTypeId, year, month)
    IN
    \E s \in StatsOf(monthlyServiceStat, usages[i].serviceTypeId, year, month) :
      /\ monthlyServiceStat[s].usageCount >= Cardinality(recorded)
      /\ monthlyServiceStat[s].totalUsage
           >= SumOver([j \in DOMAIN usages |-> usages[j].usageAmount], recorded)

\* the rows after updateMonthlyStats calls with amounts amts[1], amts[2], ...
\* for one service type and date, run one after the other
RECURSIVE AfterUpdates(_, _, _, _)
AfterUpdates(rows, serviceTypeId, amts, date) ==
  IF amts = <<>> THEN rows
  ELSE AfterUpdates(updateMonthlyStatsResult(rows, serviceTypeId, Head(amts), date).db,
                    serviceTypeId, Tail(amts), date)

\* C12: k updateMonthlyStats calls for one (serviceType, year, month) with
\* amounts a1..ak, run one after the other, leave exactly one row of that key;
\* its totalUsage has grown by a1+...+ak and its usageCount by k (from 0 and
\* 0 when the first call creates the row), its averageUsage is totalUsage /
\* usageCount, and the rows of other keys are unchanged.  No state has two
\* rows of one key.
C12_MonthlyStatsAccumulate ==
  /\ \A i, j \in DOMAIN monthlyServiceStat :
       (/\ monthlyServiceStat[i].serviceTypeId = monthlyServiceStat[j].serviceTypeId
        /\ monthlyServiceStat[i].year = monthlyServiceStat[j].year
        /\ monthlyServiceStat[i].month = monthlyServiceStat[j].month) => i = j
  /\ \A st \in ServiceTypeIds, date \in StatDates,
        amts \in UNION {[1..k -> StatAmounts] : k \in 1..3} :
       LET year == date \div 12
           month == (date % 12) + 1
           before == StatsOf(monthlyServiceStat, st, year, month)
           total0 == SumOver([i \in DOMAIN monthlyServiceStat |->
                                monthlyServiceStat[i].totalUsage], before)
           count0 == SumOver([i \in DOMAIN monthlyServiceStat |->
                                monthlyServiceStat[i].usageCount], before)
           rows == AfterUpdates(monthlyServiceStat, st, amts, date)
           after == StatsOf(rows, st, year, month)
       IN
       /\ Cardinality(after) = 1
       /\ \A s \in after :
            /\ rows[s].totalUsage = total0 + SumOver(amts, DOMAIN amts)
            /\ rows[s].usageCount = count0 + Len(amts)
            /\ rows[s].averageUsage[1] * rows[s].usageCount
                 = rows[s].totalUsage * rows[s].averageUsage[2]
            /\ before = {} => s = Len(monthlyServiceStat) + 1
       /\ \A i \in DOMAIN monthlyServiceStat \ before : rows[i] = monthlyServiceStat[i]
       /\ DOMAIN rows = DOMAIN monthlyServiceStat \cup after

\* a second update of a row has just been made, with another key's row
\* present: 1 then 2, or 2 then 1, make total 3, count 2, average 3/2
C12_Witness ==
  /\ ret = [op |-> "updateMonthlyStats", err |-> "none"]
  /\ Len(monthlyServiceStat) >= 2
  /\ \E s \in DOMAIN monthlyServiceStat :
       /\ monthlyServiceStat[s].usageCount = 2
       /\ monthlyServiceStat[s].totalUsage = 3
       /\ monthlyServiceStat[s].averageUsage = <<3, 2>>

\* both calls have returned
AllDone == \A i \in DOMAIN calls : calls[i].pc = "done"

\* C13: two concurrent updateMonthlyStats calls with amounts a1 and a2 for
\* the key of an existing row with totalUsage = t and usageCount = n leave
\* that row with totalUsage = t + a1 + a2 and usageCount = n + 2, whatever
\* the interleaving.
C13_NoStatUpdateLost ==
  (/\ AllDone
   /\ \A i \in DOMAIN calls : calls[i].op = "updateMonthlyStats"
   /\ calls[1].args.date = calls[2].args.date
   /\ calls[1].args.serviceTypeId = calls[2].args.serviceTypeId) =>
    \A s \in StatsOf(issued.monthlyServiceStat, calls[1].args.serviceTypeId,
                     calls[1].args.date \div 12, (calls[1].args.date % 12) + 1) :
      /\ monthlyServiceStat[s].totalUsage
           = issued.monthlyServiceStat[s].totalUsage
             + calls[1].args.usageAmount + calls[2].args.usageAmount
      /\ monthlyServiceStat[s].usageCount = issued.monthlyServiceStat[s].usageCount + 2

\* C14: when two concurrent recordProductUsage calls with amounts a1 and a2
\* drew from the same in-use lot, whose currentAmount was c, and both
\* succeeded, the lot has currentAmount = c - a1 - a2 and exactly two Usage
\* rows reference it.
C14_NoDecrementLost ==
  (/\ AllDone
   /\ \A i \in DOMAIN calls : calls[i].op = "recordProductUsage" /\ calls[i].err = "none"
   /\ Val(calls[1].read).id = Val(calls[2].read).id) =>
    LET l == Val(calls[1].read).id IN
    /\ lots[l].currentAmount
         = Some(Val(issued.lots[l].currentAmount)
                - calls[1].args.usageAmount - calls[2].args.usageAmount)
    /\ Cardinality({u \in DOMAIN usages : usages[u].usedLotId = l}) = 2

\* both recordProductUsage calls read the lot before either decremented it,
\* and both succeeded: the lot held less than the two amounts together
C14_Witness ==
  /\ AllDone
  /\ \A i \in DOMAIN calls : calls[i].op = "recordProductUsage" /\ calls[i].err = "none"
  /\ Val(calls[1].read).id = Val(calls[2].read).id
  /\ Val(calls[1].read).row = Val(calls[2].read).row
  /\ Len(usages) = 2
  /\ calls[1].args.usageAmount # calls[2].args.usageAmount

\* C15: of two concurrent startUsingProduct calls for the same unused lot at
\* most one succeeds, and the product's lotQuantity is decremented by exactly
\* 1 and its inUseQuantity incremented by exactly 1.
C15_LotStartsOnce ==
  (/\ AllDone
   /\ \A i \in DOMAIN calls : calls[i].op = "startUsingProduct"
   /\ calls[1].args.lotId = calls[2].args.lotId
   /\ ~issued.lots[calls[1].args.lotId].isInUse) =>
    LET p == issued.lots[calls[1].args.lotId].productId IN
    /\ Cardinality({i \in DOMAIN calls : calls[i].err = "none"}) <= 1
    /\ products[p].lotQuantity = issued.products[p].lotQuantity - 1
    /\ products[p].inUseQuantity = issued.products[p].inUseQuantity + 1

\* the lots of product p that hold an amount
WithAmount(ls, p) ==
  {l \in DOMAIN ls : ls[l].productId = p /\ ls[l].currentAmount # <<>>}

\* C16 as stated: every lot with a non-null currentAmount was moved to in use
\* by a startUsingProduct call (each leaves a START_USING activity of the
\* product), and no createProduct or addProductStock call produces a lot with
\* a non-null currentAmount.
C16_OnlyStartSetsAmount ==
  /\ \A p \in DOMAIN products :
       Cardinality(WithAmount(lots, p))
         <= CopiesIn(Activity("u1", "START_USING", p), activities)
  /\ \A s \in StoreIds, c \in Capacities, n \in 0..MaxQuantity :
       LET r == createProductResult(DB, s, c, n) IN
       \A l \in DOMAIN r.db.lots \ DOMAIN lots : r.db.lots[l].currentAmount = <<>>
  /\ \A p \in ProductIds, q \in 1..MaxQuantity, st \in StockStates, u \in UserIds :
       LET r == addProductStockResult(DB, p, q, st[2], st[1], u, now) IN
       \A l \in DOMAIN r.db.lots \ DOMAIN lots : r.db.lots[l].currentAmount = <<>>

\* C16 (amended): a lot acquires a non-null currentAmount only by
\* startUsingProduct or by being added in use by addProductStock: every lot
\* with a non-null currentAmount is in use and has a startedAt, each product
\* has no more such lots than START_USING and ADD_STOCK activities, and
\* createProduct, and addProductStock with isInUse = false (whatever
\* currentAmount it is given), never produce a lot with a non-null
\* currentAmount.
C16_AmountOnlyInUse ==
  /\ \A l \in DOMAIN lots :
       lots[l].currentAmount # <<>> => lots[l].isInUse /\ lots[l].startedAt # <<>>
  /\ \A p \in DOMAIN products :
       Cardinality(WithAmount(lots, p))
         <= CopiesIn(Activity("u1", "START_USING", p), activities)
            + CopiesIn(Activity("u1", "ADD_STOCK", p), activities)
  /\ \A s \in StoreIds, c \in Capacities, n \in 0..MaxQuantity :
       LET r == createProductResult(DB, s, c, n) IN
       \A l \in DOMAIN r.db.lots \ DOMAIN lots : r.db.lots[l].currentAmount = <<>>
  /\ \A p \in ProductIds, q \in 1..MaxQuantity, c \in StockAmounts, u \in UserIds :
       LET r == addProductStockResult(DB, p, q, c, FALSE, u, now) IN
       \A l \in DOMAIN r.db.lots \ DOMAIN lots :
         r.db.lots[l].currentAmount = <<>> /\ ~r.db.lots[l].isInUse

\* addProductStock has just added a lot in use with an amount, next to a lot
\* that startUsingProduct started
C16_Witness ==
  /\ ret = [op |-> "addProductStock", err |-> "none"]
  /\ lots[Len(lots)].isInUse
  /\ lots[Len(lots)].currentAmount = <<MaxAmount - 1>>
  /\ \E l \in DOMAIN lots :
       /\ l # Len(lots)
       /\ lots[l].currentAmount = <<MaxAmount>>
       /\ CopiesIn(Activity("u1", "START_USING", lots[l].productId), activities) = 1
       /\ CopiesIn(Activity("u1", "ADD_STOCK", lots[l].productId), activities) = 0

\* C17: once an in-use lot of a product has currentAmount = 0, a
\* recordProductUsage call for that product does not select it: when the
\* product has another in-use lot, started later, that holds at least the
\* amount asked for, the call succeeds and draws from a lot that is not
\* depleted.
C17_DepletedLotNotSelected ==
  \A p \in DOMAIN products, a \in Amounts :
    (\E l, m \in InUseOf(lots, p) :
       /\ lots[l].currentAmount = <<0>>
       /\ lots[m].currentAmount # <<>>
       /\ Val(lots[m].currentAmount) >= a
       /\ Val(lots[l].startedAt) < Val(lots[m].startedAt)) =>
      \A r \in recordProductUsageResults(DB, p, "t1", a, <<>>, "u1", now) :
        /\ r.err = "none"
        /\ lots[r.db.usages[Len(usages) + 1].usedLotId].currentAmount # <<0>>

\* C18: whenever addProductStock or recordProductUsage returns an error,
\* also when one of its writes (the audit-activity write included) fails, the
\* lot set, every lot's fields and every product's counters are the same as
\* before the call.
C18_FailureRollsBack ==
  [][(ret'.op \in {"addProductStock", "recordProductUsage"} /\ ret'.err # "none")
       => (lots' = lots /\ products' = products)]_vars

Distance(x, y) == IF x >= y THEN x - y ELSE y - x

\* C19: for every service type, baseAmount and nailLength of the input sets,
\* calculateAdjustedUsageAmount returns baseAmount x rate / 100 rounded to two
\* decimals (in hundredths: the integer nearest to baseAmount x rate / 100),
\* where rate is the length rate matching nailLength, replaced by the integer
\* nearest to rate x designUsageRate when the service type has a
\* designUsageRate (one the code takes as present: not null, not 0); and
\* baseAmount 0.5 with rates 80/100/150 and no designUsageRate gives 0.4, 0.5
\* and 0.75.
C19_TwoStepRounding ==
  /\ \A id \in DOMAIN serviceType, baseAmount \in BaseAmounts, nailLength \in NailLengths :
       LET row == serviceType[id]
           lengthRate == IF nailLength = "SHORT" THEN row.shortLengthRate
                         ELSE IF nailLength = "MEDIUM" THEN row.mediumLengthRate
                         ELSE row.longLengthRate
           hasDesign == row.designUsageRate \notin {<<>>, <<0>>}
           values == calculateAdjustedUsageAmount(row, baseAmount, nailLength)
       IN
       /\ values # {}
       /\ \A v \in values :
            \E rate \in 0..400 :
              /\ IF hasDesign
                 THEN 2 * Distance(100 * rate, lengthRate * row.designUsageRate[1]) <= 100
                 ELSE rate = lengthRate
              /\ 2 * Distance(100 * v, baseAmount * rate) <= 100
  /\ \A id \in DOMAIN serviceType :
       (serviceType[id].designUsageRate = <<>> /\ serviceType[id].longLengthRate = 150) =>
         /\ calculateAdjustedUsageAmount(serviceType[id], 50, "SHORT") = {40}
         /\ calculateAdjustedUsageAmount(serviceType[id], 50, "MEDIUM") = {50}
         /\ calculateAdjustedUsageAmount(serviceType[id], 50, "LONG") = {75}

\* 2.0 at length LONG (130%) of a service type with designUsageRate 1.22 has
\* just been computed: the rate 158.6 rounds to 159 and the amount is 3.18
C19_Witness ==
  /\ ret.op = "calculateAdjustedUsageAmount"
  /\ ret.value = 318
  /\ Len(serviceType) = 1
  /\ serviceType[1].designUsageRate = <<122>>
  /\ serviceType[1].longLengthRate = 130

\* the associations of a service type, without the service type's id
AssociationsOf(rows, serviceTypeId) ==
  {[productId |-> rows[i].productId, usageAmount |-> rows[i].usageAmount,
    productRole |-> rows[i].productRole, isRequired |-> rows[i].isRequired,
    order |-> rows[i].order]
   : i \in {j \in DOMAIN rows : rows[j].serviceTypeId = serviceTypeId}}

CountOf(rows, serviceTypeId) ==
  Cardinality({j \in DOMAIN rows : rows[j].serviceTypeId = serviceTypeId})

\* what every successful copy does to the associations and to the source
CopiesAssociations(r, sourceId, newId) ==
  /\ newId \notin DOMAIN serviceType
  /\ DOMAIN r.db.serviceType = DOMAIN serviceType \cup {newId}
  /\ \A id \in DOMAIN serviceType : r.db.serviceType[id] = serviceType[id]
  /\ \A i \in DOMAIN serviceTypeProduct :
       i \in DOMAIN r.db.serviceTypeProduct
       /\ r.db.serviceTypeProduct[i] = serviceTypeProduct[i]
  /\ CountOf(r.db.serviceTypeProduct, newId) = CountOf(serviceTypeProduct, sourceId)
  /\ AssociationsOf(r.db.serviceTypeProduct, newId)
       = AssociationsOf(serviceTypeProduct, sourceId)
  /\ Len(r.db.serviceTypeProduct)
       = Len(serviceTypeProduct) + CountOf(serviceTypeProduct, sourceId)

\* C20 as stated: the service type a successful copyServiceType has just
\* created has a new id, a name of its own, and the store and other scalar
\* fields of its source, with as many associations as the source, of the
\* same product, usageAmount, role, required flag and order.
C20_CopyKeepsSourceFields ==
  (ret.op = "copyServiceType" /\ ret.err = "none") =>
    LET newId == ret.value IN
    /\ newId = Len(serviceType)
    /\ \E sourceId \in 1..(newId - 1) :
         /\ [serviceType[newId] EXCEPT !.name = serviceType[sourceId].name]
              = serviceType[sourceId]
         /\ serviceType[newId].name # serviceType[sourceId].name
         /\ CountOf(serviceTypeProduct, newId) = CountOf(serviceTypeProduct, sourceId)
         /\ AssociationsOf(serviceTypeProduct, newId)
              = AssociationsOf(serviceTypeProduct, sourceId)

\* C20 (amended): copyServiceType on an existing source with a name not in
\* use in the source's store succeeds and creates a service type with a new
\* id, the requested name, and the source's store and other scalar fields,
\* except that designVariant and designUsageRate are those of the call when
\* it gives them (non-empty, non-zero); it creates exactly k associations of
\* the same product, usageAmount, role, required flag and order as the
\* source's k, and leaves the source and its associations unchanged.  With a
\* name in use in that store it fails and changes nothing.
C20_CopyWithOverrides ==
  \A sourceId \in DOMAIN serviceType, newName \in Names, design \in CopyDesigns :
    LET r == copyServiceTypeResult(Catalog, sourceId, newName, design[1], design[2])
        newId == Len(serviceType) + 1
        source == serviceType[sourceId]
        taken == \E id \in DOMAIN serviceType :
                   serviceType[id].name = newName /\ serviceType[id].storeId = source.storeId
    IN
    IF taken THEN r.err # "none" /\ r.db = Catalog
    ELSE /\ r.err = "none"
         /\ CopiesAssociations(r, sourceId, newId)
         /\ r.db.serviceType[newId].name = newName
         /\ r.db.serviceType[newId].designVariant
              = IF design[1] \in {<<>>, <<"">>} THEN source.designVariant ELSE design[1]
         /\ r.db.serviceType[newId].designUsageRate
              = IF design[2] \in {<<>>, <<0>>} THEN source.designUsageRate ELSE design[2]
         /\ [r.db.serviceType[newId] EXCEPT !.name = source.name,
                                            !.designVariant = source.designVariant,
                                            !.designUsageRate = source.designUsageRate]
              = source

\* a service type with MaxAssociations associations has just been copied as
\* a FRENCH variant with rate 1.2
C20_Witness ==
  /\ ret = [op |-> "copyServiceType", err |-> "none", value |-> 2]
  /\ Len(serviceType) = 2
  /\ serviceType[2].designVariant = <<"FRENCH">>
  /\ serviceType[2].designUsageRate = <<120>>
  /\ serviceType[2].name # serviceType[1].name
  /\ CountOf(serviceTypeProduct, 1) = MaxAssociations
  /\ CountOf(serviceTypeProduct, 2) = MaxAssociations
\* a service type of the store has the name
Collides(rows, name, storeId) ==
  \E i \in DOMAIN rows : rows[i].name = name /\ rows[i].storeId = storeId

\* C21: service type names are unique per store in every state that sequences
\* and interleavings of createServiceType, copyServiceType and
\* updateServiceType reach: no two service types of one store share a name,
\* and a create or copy whose name collides in the store, when it is called
\* or when its transaction runs, fails and creates no service type and no
\* association.
C21_NamesUniquePerStore ==
  /\ \A i, j \in DOMAIN serviceType :
       (i # j /\ serviceType[i].storeId = serviceType[j].storeId)
         => serviceType[i].name # serviceType[j].name
  /\ \A name \in Names, storeId \in Stores, list \in ProductParamLists :
       Collides(serviceType, name, storeId) =>
         LET r == createServiceTypeResult(Catalog, name, storeId, list) IN
         r.err # "none" /\ r.db = Catalog
  /\ \A sourceId \in DOMAIN serviceType, newName \in Names, design \in CopyDesigns :
       Collides(serviceType, newName, serviceType[sourceId].storeId) =>
         LET r == copyServiceTypeResult(Catalog, sourceId, newName, design[1], design[2]) IN
         r.err # "none" /\ r.db = Catalog
  /\ \A i \in DOMAIN calls :
       (/\ calls[i].pc = "commit"
        /\ calls[i].op \in {"createServiceType", "copyServiceType"}
        /\ Collides(serviceType,
                    IF calls[i].op = "createServiceType" THEN calls[i].args.name
                    ELSE calls[i].args.newName,
                    IF calls[i].op = "createServiceType" THEN calls[i].args.storeId
                    ELSE Val(calls[i].read).source.storeId))
         => LET r == catalogCommit(Catalog, calls[i].op, calls[i].args, calls[i].read) IN
            r.err # "none" /\ r.db = Catalog

\* two interleaved calls took the same free name of a store: one made the
\* service type, the transaction of the other was rejected
C21_Witness ==
  /\ calls[1].op = "createServiceType" /\ calls[1].pc = "done" /\ calls[1].err = "none"
  /\ calls[2].op \in {"createServiceType", "copyServiceType"}
  /\ calls[2].pc = "done" /\ calls[2].err = "UniqueConstraint"
  /\ Len(serviceType) = Len(issued.serviceType) + 1

\* the associations of the pair
PairRows(rows, serviceTypeId, productId) ==
  {i \in DOMAIN rows : rows[i].serviceTypeId = serviceTypeId /\ rows[i].productId = productId}

\* C22: upsertServiceTypeProduct keeps at most one association per
\* (serviceType, product).  The first call for a pair of an existing service
\* type and product adds one association with the given values; a later call
\* for the pair leaves the number of associations and every other association
\* as they were and sets usageAmount, isRequired (true if left out) and order
\* (0 if left out) of the pair's association, and its productRole when one is
\* given; the same call made again changes nothing.
C22_UpsertOnePerPair ==
  /\ \A st \in DOMAIN serviceType, p \in DOMAIN products :
       Cardinality(PairRows(serviceTypeProduct, st, p)) <= 1
  /\ \A st \in DOMAIN serviceType, p \in DOMAIN products, a \in UpsertAmounts,
        req \in UpsertRequired, role \in UpsertRoles, order \in UpsertOrders :
       LET r == upsertServiceTypeProductResult(Catalog, products, st, p, a, req, role, order)
           before == PairRows(serviceTypeProduct, st, p)
           after == PairRows(r.db.serviceTypeProduct, st, p)
           again == upsertServiceTypeProductResult(r.db, products, st, p, a, req, role, order)
       IN
       /\ r.err = "none"
       /\ r.db.serviceType = serviceType
       /\ Cardinality(after) = 1
       /\ \A i \in after :
            LET row == r.db.serviceTypeProduct[i] IN
            /\ row.usageAmount = a
            /\ row.isRequired = (IF IsNull(req) THEN TRUE ELSE Val(req))
            /\ row.order = (IF IsNull(order) THEN 0 ELSE Val(order))
            /\ ~IsNull(role) => row.productRole = role
            /\ (IsNull(role) /\ before = {}) => row.productRole = Null
       /\ IF before = {}
          THEN /\ Len(r.db.serviceTypeProduct) = Len(serviceTypeProduct) + 1
               /\ \A i \in DOMAIN serviceTypeProduct :
                    r.db.serviceTypeProduct[i] = serviceTypeProduct[i]
          ELSE /\ Len(r.db.serviceTypeProduct) = Len(serviceTypeProduct)
               /\ after = before
               /\ \A i \in DOMAIN serviceTypeProduct \ before :
                    r.db.serviceTypeProduct[i] = serviceTypeProduct[i]
       /\ again.err = "none" /\ again.db = r.db

\* a second call for a pair has changed the amount, the flag, the role and the
\* order of its association while the other pair keeps its own
C22_Witness ==
  /\ ret.op = "upsertServiceTypeProduct" /\ ret.err = "none"
  /\ Len(serviceTypeProduct) = 2
  /\ serviceTypeProduct[1] = [serviceTypeId |-> 1, productId |-> 1, usageAmount |-> 30,
                              isRequired |-> TRUE, productRole |-> Some("BASE"), order |-> 0]
  /\ serviceTypeProduct[2] = [serviceTypeId |-> 1, productId |-> 2, usageAmount |-> 50,
                              isRequired |-> FALSE, productRole |-> Some("COLOR"), order |-> 2]

\* currentAmount of lot l, a lot without an amount counting 0
AmountOf(ls, l) == IF IsNull(ls[l].currentAmount) THEN 0 ELSE Val(ls[l].currentAmount)

\* C23: getProductStock is a pure read.  For a product with a capacity (one
\* that is not 0) it returns currentTotal = the sum of currentAmount over the
\* product's in-use lots + capacity x the number of its unused lots and
\* totalCapacity = totalQuantity x capacity; for every product it returns
\* isLowStock = (lotQuantity <= minStockAlert); it changes no product, lot or
\* activity record, and the report an actual call returned is the one of the
\* rows it left.
C23_StockReport ==
  /\ \A p \in ProductIds :
       LET r == getProductStockResult(DB, p) IN
       /\ r.db = DB
       /\ (r.err = "none") = (p \in DOMAIN products)
       /\ p \in DOMAIN products =>
            LET product == products[p]
                report == Val(r.value)
            IN
            /\ report.product = product
            /\ report.isLowStock = (product.lotQuantity <= product.minStockAlert)
            /\ (~IsNull(product.capacity) /\ Val(product.capacity) # 0) =>
                 /\ report.currentTotal =
                      SumOver([l \in DOMAIN lots |-> AmountOf(lots, l)], InUseOf(lots, p))
                        + Val(product.capacity) * Cardinality(UnusedOf(lots, p))
                 /\ report.totalCapacity = product.totalQuantity * Val(product.capacity)
  /\ (ret.op = "getProductStock" /\ ret.err = "none") =>
       \E p \in DOMAIN products : ret.value = getProductStockResult(DB, p).value

\* a report on a product whose unused lots are exactly at the alert level,
\* with a bottle in use that a service has drawn from
C23_Witness ==
  /\ ret.op = "getProductStock" /\ ret.err = "none"
  /\ Val(ret.value).isLowStock
  /\ Val(ret.value).product.lotQuantity = Val(ret.value).product.minStockAlert
  /\ Val(ret.value).product.capacity = Some(MaxAmount)
  /\ Val(ret.value).currentTotal = MaxAmount + 1
  /\ usages # <<>>

\* C30: updateProduct preserves the stock bookkeeping: a call that succeeds
\* leaves lotQuantity and inUseQuantity of every product and every lot
\* unchanged and the products still satisfy totalQuantity = inUseQuantity +
\* lotQuantity afterwards; a call on a missing product id fails and changes
\* nothing.
C30_UpdateKeepsBookkeeping ==
  [][(ret'.op = "updateProduct") =>
       /\ lots' = lots
       /\ DOMAIN products' = DOMAIN products
       /\ \A p \in DOMAIN products :
            /\ products'[p].lotQuantity = products[p].lotQuantity
            /\ products'[p].inUseQuantity = products[p].inUseQuantity
            /\ CountersAddUp(products[p]) => CountersAddUp(products'[p])
       /\ ret'.err # "none" => products' = products]_vars

\* the invitations with the token
WithToken(token) == {k \in DOMAIN invitation : invitation[k].token = token}

\* C24: an invitation is consumed at most once.  After a registerStaff call
\* with a token has succeeded the invitation has used = true; a registerStaff
\* or validateInvitation call made when the invitation of its token is used,
\* or its expiry has passed, reports an invalid invitation and creates no
\* user; and however registerStaff calls for one token interleave, the
\* invitation yields at most one user.
C24_InvitationUsedOnce ==
  /\ \A i \in DOMAIN calls :
       (calls[i].pc = "done" /\ calls[i].err = "none") =>
         /\ WithToken(calls[i].args.token) # {}
         /\ \A k \in WithToken(calls[i].args.token) : invitation[k].used
  /\ \A token \in Tokens :
       (\E k \in WithToken(token) : invitation[k].used \/ invitation[k].expires < now) =>
         /\ registerStaffResult(Auth, token, now).err = "InvalidInvitation"
         /\ registerStaffResult(Auth, token, now).db = Auth
         /\ validateInvitationResult(Auth, token, now).err \in {"Used", "Expired"}
         /\ validateInvitationResult(Auth, token, now).db = Auth
         /\ \A i \in DOMAIN calls :
              (calls[i].pc = "find" /\ calls[i].args.token = token) =>
                registerFind(Auth, token, now).err = "InvalidInvitation"
  /\ \A k \in DOMAIN invitation :
       Cardinality({u \in DOMAIN user : /\ Some(user[u].email) = invitation[k].email
                                        /\ user[u].storeId = invitation[k].storeId}) <= 1
  /\ Len(user) <= Cardinality({k \in DOMAIN invitation :
                                 \/ invitation[k].used
                                 \/ \E i \in DOMAIN calls :
                                      /\ calls[i].pc = "update"
                                      /\ Val(calls[i].read).id = k})

\* two calls for one token both read the unused invitation; one registered
\* the user and marked the invitation, the other made no second user
C24_Witness ==
  /\ Len(calls) = 2
  /\ calls[1].args.token = calls[2].args.token
  /\ calls[1].pc = "done" /\ calls[1].err = "none"
  /\ calls[2].pc = "done" /\ calls[2].err = "RegistrationError"
  /\ Len(user) = 1
  /\ \A k \in WithToken(calls[1].args.token) : invitation[k].used

\* the RelatedProductUsage children of usage u
ChildrenOf(rows, u) == {r \in DOMAIN rows : rows[r].usageId = u}

\* C25: cross-store references are disallowed: in every reachable state each
\* Usage's primary product, its service type and the product of each of its
\* RelatedProductUsage children belong to the same store.
C25_NoCrossStoreUsage ==
  \A u \in DOMAIN usages :
    LET store == products[usages[u].productId].storeId IN
    /\ StoreOfServiceType[usages[u].serviceTypeId] = store
    /\ \A r \in ChildrenOf(relatedUsages, u) :
         products[relatedUsages[r].productId].storeId = store

\* C25 as amended: recordProductUsage checks that the product, the service
\* type and the related products exist and compares no store.  Every Usage
\* references an existing product and service type, each of one store, and
\* every child an existing product; a call that succeeds adds one Usage on
\* the product and service type it named and one child per related entry on
\* that entry's product, so the usage event is within one store when the
\* call's product, service type and related products are.
C25_UsageStoresAsCalled ==
  /\ \A u \in DOMAIN usages :
       /\ usages[u].productId \in DOMAIN products
       /\ products[usages[u].productId].storeId \in Stores
       /\ usages[u].serviceTypeId \in ServiceTypes
       /\ \A r \in ChildrenOf(relatedUsages, u) :
            /\ relatedUsages[r].productId \in DOMAIN products
            /\ products[relatedUsages[r].productId].storeId \in Stores
  /\ \A p \in ProductIds, a \in Amounts,
        rel \in UNION {[1..k -> [productId : ProductIds, amount : {1}]] : k \in 0..1} :
       \A r \in recordProductUsageResults(DB, p, "t1", a, rel, "u1", now) :
         r.err = "none" =>
           LET u == Len(usages) + 1 IN
           /\ Len(r.db.usages) = u
           /\ r.db.usages[u].productId = p
           /\ r.db.usages[u].serviceTypeId = "t1"
           /\ Len(r.db.relatedUsages) = Len(relatedUsages) + Len(rel)
           /\ \A k \in DOMAIN rel :
                /\ r.db.relatedUsages[Len(relatedUsages) + k].usageId = u
                /\ r.db.relatedUsages[Len(relatedUsages) + k].productId = rel[k].productId
           /\ (/\ products[p].storeId = StoreOfServiceType["t1"]
               /\ \A k \in DOMAIN rel :
                    products[rel[k].productId].storeId = products[p].storeId)
                => /\ r.db.products[r.db.usages[u].productId].storeId = products[p].storeId
                   /\ \A c \in ChildrenOf(r.db.relatedUsages, u) :
                        r.db.products[r.db.relatedUsages[c].productId].storeId
                          = products[p].storeId

\* a committed usage event of a product of store s1 with a related product of
\* store s2, both drawn from
C25_Witness ==
  /\ ret.op = "recordProductUsage" /\ ret.err = "none"
  /\ Len(usages) = 1 /\ Len(relatedUsages) = 1
  /\ products[usages[1].productId].storeId = "s1"
  /\ products[relatedUsages[1].productId].storeId = "s2"
  /\ usages[1].productId # relatedUsages[1].productId

\* the Usage rows whose primary product is p
UsagesOf(rows, p) == {u \in DOMAIN rows : rows[u].productId = p}

\* the number of Activity rows with the action
ActivityCount(acts, action) ==
  SumOver(acts, {a \in DOMAIN acts : a.action = action})

\* C26: after any sequence of recordProductUsage calls, successful or failed,
\* each product's usageCount is the number of Usage rows whose primary
\* product it is and the number of RECORD_USAGE activity rows is the number
\* of Usage rows; a product that a call names only as a related product
\* keeps its usageCount.
C26_UsageCountMatchesRows ==
  /\ \A p \in DOMAIN products : products[p].usageCount = Cardinality(UsagesOf(usages, p))
  /\ ActivityCount(activities, "RECORD_USAGE") = Len(usages)
  /\ \A p \in DOMAIN products, q \in DOMAIN products, a \in Amounts :
       \A r \in recordProductUsageResults(DB, p, "t1", a, <<[productId |-> q, amount |-> 1]>>,
                                          "u1", now) :
         /\ r.err # "none" => /\ r.db.usages = usages
                              /\ r.db.products = products
                              /\ r.db.activities = activities
         /\ (r.err = "none" /\ q # p) =>
              /\ r.db.products[q].usageCount = products[q].usageCount
              /\ r.db.products[p].usageCount = products[p].usageCount + 1

\* two service events on one product, the second with the other product as
\* its related product, after a call that failed
C26_Witness ==
  /\ Len(usages) = 2 /\ Len(products) = 2
  /\ products[1].usageCount = 2 /\ products[2].usageCount = 0
  /\ \E r \in DOMAIN relatedUsages : relatedUsages[r].productId = 2
  /\ ret.op = "recordProductUsage" /\ ret.err = "InsufficientQuantity"

\* what the Usage and RelatedProductUsage rows say was drawn from lot l
Drawn(us, rel, l) ==
  SumOver([u \in DOMAIN us |-> us[u].usageAmount], {u \in DOMAIN us : us[u].usedLotId = l})
    + SumOver([r \in DOMAIN rel |-> rel[r].amount],
              {r \in DOMAIN rel : rel[r].usedLotId = l})

\* C27: lot amounts are conserved when operations run one at a time.  No row
\* draws from a lot at the moment it becomes in use, and from then on every
\* step lowers the lot's currentAmount by exactly what the Usage and
\* RelatedProductUsage rows added by the step draw from it; so what the lot
\* had when it became in use minus what it has now is the sum over the rows
\* whose usedLot it is.  (A lot in use without an amount has none to
\* conserve.)
C27_LotAmountsConserved ==
  [][\A l \in DOMAIN lots' :
       /\ (lots'[l].isInUse /\ (l \notin DOMAIN lots \/ ~lots[l].isInUse)) =>
            Drawn(usages', relatedUsages', l) = 0
       /\ (l \in DOMAIN lots /\ lots[l].isInUse) =>
            /\ lots'[l].isInUse
            /\ IsNull(lots'[l].currentAmount) = IsNull(lots[l].currentAmount)
            /\ ~IsNull(lots[l].currentAmount) =>
                 Val(lots[l].currentAmount) - Val(lots'[l].currentAmount)
                   = Drawn(usages', relatedUsages', l) - Drawn(usages, relatedUsages, l)]_vars

\* a bottle emptied by two service events, one drawing from it as the
\* primary product and one as a related product
C27_Witness ==
  \E l \in DOMAIN lots :
    /\ lots[l].isInUse /\ lots[l].currentAmount = Some(0)
    /\ Len(usages) = 2
    /\ \E u \in DOMAIN usages : usages[u].usedLotId = l /\ usages[u].usageAmount = 1
    /\ \E r \in DOMAIN relatedUsages :
         /\ relatedUsages[r].usedLotId = l
         /\ usages[relatedUsages[r].usageId].usedLotId # l
    /\ Drawn(usages, relatedUsages, l) = MaxAmount

\* C28: two concurrent recordProductUsage calls cannot overdraw a lot: when
\* calls with amounts a1 and a2 are issued on the same in-use lot with
\* currentAmount = c, a1 <= c, a2 <= c and a1 + a2 > c, no interleaving lets
\* both succeed, and the lot's currentAmount never becomes negative.
C28_NoConcurrentOverdraw ==
  \A l \in DOMAIN issued.lots :
    LET c == issued.lots[l].currentAmount
        a1 == calls[1].args.usageAmount
        a2 == calls[2].args.usageAmount
    IN
    (/\ calls[1].op = "recordProductUsage" /\ calls[2].op = "recordProductUsage"
     /\ issued.lots[l].isInUse /\ ~IsNull(c)
     /\ OldestInUse(issued.lots, calls[1].args.productId) = {l}
     /\ OldestInUse(issued.lots, calls[2].args.productId) = {l}
     /\ a1 <= Val(c) /\ a2 <= Val(c) /\ a1 + a2 > Val(c))
      => /\ ~(/\ calls[1].pc = "done" /\ calls[1].err = "none"
              /\ calls[2].pc = "done" /\ calls[2].err = "none")
         /\ Val(lots[l].currentAmount) >= 0

\* C29: createProduct never exposes a partially built product: the product
\* that a getProductStock call between the steps of createProduct reads, and
\* every product there is when a createProduct call has failed partway
\* through its lots, has lotQuantity equal to its number of unused lots.
C29_NoPartialProduct ==
  /\ (ret.op = "getProductStock" /\ ret.err = "none") =>
       Val(ret.value).product.lotQuantity = Cardinality(Val(ret.value).unusedLots)
  /\ (ret.op = "createProduct" /\ ret.err # "none") =>
       \A p \in DOMAIN products : products[p].lotQuantity = Cardinality(UnusedOf(lots, p))

====
